---- MODULE Spec2Model ----
(***************************************************************************)
(* A model of the scene graph (src/src/scene_graph.rs) and of the program  *)
(* around it (src/src/main.rs): the node tree with its transform update    *)
(* and draw traversals, and the render, event and watchdog threads with    *)
(* the state they share.                                                   *)
(*                                                                         *)
(* Matrices are 4x4 over the integers (rows of a tuple); angles are whole  *)
(* quarter turns, so that sines and cosines are exact.  The f32 rounding   *)
(* of the program is not modelled.                                         *)
(***************************************************************************)
EXTENDS Integers, Sequences, FiniteSets, TLC

(***************************************************************************)
(* Bounds of the model.                                                    *)
(***************************************************************************)
MaxNodes == 3

Nodes == 1..MaxNodes

\* scene_root: the node the traversals of a frame start from.
Root == 1

(***************************************************************************)
(* glm: vectors and matrices.                                              *)
(***************************************************************************)
zero == <<0, 0, 0>>

Neg(v) == <<0 - v[1], 0 - v[2], 0 - v[3]>>

identity ==
    << <<1, 0, 0, 0>>, <<0, 1, 0, 0>>, <<0, 0, 1, 0>>, <<0, 0, 0, 1>> >>

Dot(A, B, i, j) ==
    A[i][1] * B[1][j] + A[i][2] * B[2][j] + A[i][3] * B[3][j] + A[i][4] * B[4][j]

MatRow(A, B, i) == <<Dot(A, B, i, 1), Dot(A, B, i, 2), Dot(A, B, i, 3), Dot(A, B, i, 4)>>

\* A * B
MatMul(A, B) == <<MatRow(A, B, 1), MatRow(A, B, 2), MatRow(A, B, 3), MatRow(A, B, 4)>>

\* cosine and sine of q quarter turns
Cos4(q) == CASE q % 4 = 0 -> 1 [] q % 4 = 1 -> 0 [] q % 4 = 2 -> 0 - 1 [] OTHER -> 0

Sin4(q) == CASE q % 4 = 0 -> 0 [] q % 4 = 1 -> 1 [] q % 4 = 2 -> 0 [] OTHER -> 0 - 1

Translation(v) ==
    << <<1, 0, 0, v[1]>>, <<0, 1, 0, v[2]>>, <<0, 0, 1, v[3]>>, <<0, 0, 0, 1>> >>

Scaling(v) ==
    << <<v[1], 0, 0, 0>>, <<0, v[2], 0, 0>>, <<0, 0, v[3], 0>>, <<0, 0, 0, 1>> >>

RotationX(q) ==
    << <<1, 0, 0, 0>>, <<0, Cos4(q), 0 - Sin4(q), 0>>, <<0, Sin4(q), Cos4(q), 0>>,
       <<0, 0, 0, 1>> >>

RotationY(q) ==
    << <<Cos4(q), 0, Sin4(q), 0>>, <<0, 1, 0, 0>>, <<0 - Sin4(q), 0, Cos4(q), 0>>,
       <<0, 0, 0, 1>> >>

RotationZ(q) ==
    << <<Cos4(q), 0 - Sin4(q), 0, 0>>, <<Sin4(q), Cos4(q), 0, 0>>, <<0, 0, 1, 0>>,
       <<0, 0, 0, 1>> >>

\* glm::translate(m, v) is m * Translation(v): only the last column changes.
translate(m, v) ==
    << <<m[1][1], m[1][2], m[1][3],
         m[1][1] * v[1] + m[1][2] * v[2] + m[1][3] * v[3] + m[1][4]>>,
       <<m[2][1], m[2][2], m[2][3],
         m[2][1] * v[1] + m[2][2] * v[2] + m[2][3] * v[3] + m[2][4]>>,
       <<m[3][1], m[3][2], m[3][3],
         m[3][1] * v[1] + m[3][2] * v[2] + m[3][3] * v[3] + m[3][4]>>,
       <<m[4][1], m[4][2], m[4][3],
         m[4][1] * v[1] + m[4][2] * v[2] + m[4][3] * v[3] + m[4][4]>> >>

\* glm::rotate_x(m, angle) is m * RotationX(angle), and so for y and z.
rotate_x(m, q) == MatMul(m, RotationX(q))

rotate_y(m, q) == MatMul(m, RotationY(q))

rotate_z(m, q) == MatMul(m, RotationZ(q))

\* glm::scale(m, v) is m * Scaling(v): the first three columns are scaled.
scale_by(m, v) ==
    << <<m[1][1] * v[1], m[1][2] * v[2], m[1][3] * v[3], m[1][4]>>,
       <<m[2][1] * v[1], m[2][2] * v[2], m[2][3] * v[3], m[2][4]>>,
       <<m[3][1] * v[1], m[3][2] * v[2], m[3][3] * v[3], m[3][4]>>,
       <<m[4][1] * v[1], m[4][2] * v[2], m[4][3] * v[3], m[4][4]>> >>

(***************************************************************************)
(* SceneNode: the fields of every node, one function per field.            *)
(***************************************************************************)
VARIABLES
    position, rotation, scale, reference_point,
    node_type, current_transformation_matrix,
    vao, index_count, texture_id, children,
    \* what the last traversals did
    writeLog, updatedFrom, overwrote, stale, glLog, drawnWith,
    \* main: the state the threads share, and their locks
    pressed_keys, mouse_delta, render_thread_healthy,
    keysLock, mouseLock, healthLock,
    \* the render thread
    pcRender, key_index, keys_seen, h_angle, v_angle, frameTrace,
    \* the event thread
    pcEvent, event, control_flow, events,
    \* the watchdog thread
    pcWatchdog,
    \* what the events sent so far amount to
    last_key_state, mouse_added,
    \* the index buffer of each node's handle, the objects of the GL context,
    \* and the last call that made or changed a node
    ibo, gl, built

sceneVars ==
    <<position, rotation, scale, reference_point, node_type,
      current_transformation_matrix, vao, index_count, texture_id, children>>

traceVars == <<writeLog, updatedFrom, overwrote, stale, glLog, drawnWith>>

sharedVars ==
    <<pressed_keys, mouse_delta, render_thread_healthy, keysLock, mouseLock,
      healthLock>>

renderVars == <<pcRender, key_index, keys_seen, h_angle, v_angle, frameTrace>>

eventVars == <<pcEvent, event, control_flow, events, last_key_state, mouse_added>>

threadVars == <<sharedVars, renderVars, eventVars, pcWatchdog>>

buildVars == <<ibo, gl, built>>

vars == <<sceneVars, traceVars, threadVars, buildVars>>

None == <<>>

Some(x) == <<x>>

\* SceneNodeType, and `node_type as u32`
SceneNodeType ==
    {"Geometry", "Skybox", "Geometry2d", "Planet", "Ocean", "LightSource", "Empty"}

TypeCode(t) ==
    CASE t = "Geometry" -> 0
      [] t = "Skybox" -> 1
      [] t = "Geometry2d" -> 2
      [] t = "Planet" -> 3
      [] t = "Ocean" -> 4
      [] t = "LightSource" -> 5
      [] OTHER -> 6

\* The node types the match of draw_scene draws.
DrawnTypes == {"Geometry", "Geometry2d", "Planet", "Ocean", "Skybox"}

\* Default::default() of mesh::VAOobj: no vertex array.
DefaultVao == 0

\* The index count the factories without a handle store.
NoIndexCount == 0 - 1

(***************************************************************************)
(* The transform a node's fields describe, as update_node_transformations  *)
(* builds it (the method of SceneNode and the free function of main.rs).   *)
(***************************************************************************)
\* A mutant of SceneNode_transform: the rotation about Z before the one
\* about Y.
SceneNode_transform_zyx(n) ==
    LET t0 == identity
        t1 == translate(t0, position[n])
        t2 == translate(t1, reference_point[n])
        t3 == rotate_z(t2, rotation[n][3])
        t4 == rotate_y(t3, rotation[n][2])
        t5 == rotate_x(t4, rotation[n][1])
        t6 == translate(t5, Neg(reference_point[n]))
    IN  scale_by(t6, scale[n])

SceneNode_transform(n) ==
    LET t0 == identity
        t1 == translate(t0, position[n])
        t2 == translate(t1, reference_point[n])
        t3 == rotate_y(t2, rotation[n][2])
        t4 == rotate_z(t3, rotation[n][3])
        t5 == rotate_x(t4, rotation[n][1])
        t6 == translate(t5, Neg(reference_point[n]))
    IN  scale_by(t6, scale[n])

main_transform(n) ==
    LET t0 == identity
        t1 == translate(t0, position[n])
        t2 == translate(t1, reference_point[n])
        t3 == rotate_y(t2, rotation[n][2])
        t4 == rotate_z(t3, rotation[n][3])
        t5 == rotate_x(t4, rotation[n][1])
        t6 == translate(t5, Neg(reference_point[n]))
    IN  scale_by(t6, scale[n])

\* A mutant of SceneNode_world: the factors the wrong way round.
SceneNode_world_swapped(transformation_so_far, transform) ==
    MatMul(transform, transformation_so_far)

\* self.current_transformation_matrix = transformation_so_far * transform
SceneNode_world(transformation_so_far, transform) ==
    MatMul(transformation_so_far, transform)

main_world(transformation_so_far, transform) ==
    MatMul(transformation_so_far, transform)

\* A mutant of SceneNode_parent_value: the value the node held when the pass
\* began.
SceneNode_parent_value_old(st, n) == current_transformation_matrix[n]

\* &self.current_transformation_matrix, as the recursion into a child reads it.
\* st is the state of the pass: the matrices written so far and their order.
SceneNode_parent_value(st, n) == st.ctm[n]

main_parent_value(st, n) == st.ctm[n]

RECURSIVE SceneNode_update_node_transformations(_, _, _)
RECURSIVE SceneNode_update_children(_, _, _)
RECURSIVE update_node_transformations(_, _, _)
RECURSIVE update_children(_, _, _)

SceneNode_update_node_transformations(n, transformation_so_far, st) ==
    LET written ==
            [ctm |-> [st.ctm EXCEPT
                        ![n] = SceneNode_world(transformation_so_far,
                                               SceneNode_transform(n))],
             log |-> Append(st.log, n)]
    IN  SceneNode_update_children(n, 1, written)

\* for &child in &self.children, from the i-th child on
SceneNode_update_children(n, i, st) ==
    IF i > Len(children[n])
    THEN st
    ELSE SceneNode_update_children(n, i + 1,
            SceneNode_update_node_transformations(
                children[n][i], SceneNode_parent_value(st, n), st))

update_node_transformations(n, transformation_so_far, st) ==
    LET written ==
            [ctm |-> [st.ctm EXCEPT
                        ![n] = main_world(transformation_so_far, main_transform(n))],
             log |-> Append(st.log, n)]
    IN  update_children(n, 1, written)

update_children(n, i, st) ==
    IF i > Len(children[n])
    THEN st
    ELSE update_children(n, i + 1,
            update_node_transformations(
                children[n][i], main_parent_value(st, n), st))

\* The state a pass starts from.
PassStart == [ctm |-> current_transformation_matrix, log |-> <<>>]

(***************************************************************************)
(* draw_scene.  A traversal yields the GL calls it issues, in order; each  *)
(* entry names the node whose call of draw_scene issued it, and an entry   *)
(* "draw_scene" marks the entry into the call for a node.                  *)
(***************************************************************************)
GL(op, name, val, n) == [op |-> op, name |-> name, val |-> val, node |-> n]

\* A mutant of SceneNode_mvp: the camera applied to every node.
SceneNode_mvp_camera(n, view_projection_matrix) ==
    MatMul(view_projection_matrix, current_transformation_matrix[n])

\* let mvp = match self.node_type { ... }
SceneNode_mvp(n, view_projection_matrix) ==
    IF node_type[n] = "Geometry2d"
    THEN current_transformation_matrix[n]
    ELSE MatMul(view_projection_matrix, current_transformation_matrix[n])

\* Bind textures, or signal that none exist
\* A mutant of SceneNode_texture_calls: the flag tells whether there is a
\* texture.
SceneNode_texture_calls_flagged(n) ==
    IF texture_id[n] # None
    THEN <<GL("BindTextureUnit", "0", texture_id[n][1], n),
           GL("Uniform1i", "u_has_texture", 1, n)>>
    ELSE <<GL("Uniform1i", "u_has_texture", 0, n)>>

SceneNode_texture_calls(n) ==
    IF texture_id[n] # None
    THEN <<GL("BindTextureUnit", "0", texture_id[n][1], n),
           GL("Uniform1i", "u_has_texture", 1, n)>>
    ELSE <<GL("Uniform1i", "u_has_texture", 1, n)>>

\* The arm of the match for the drawn node types.
SceneNode_draw_calls(n, view_projection_matrix) ==
    <<GL("BindVertexArray", "", vao[n], n),
      GL("Uniform1ui", "u_node_type", TypeCode(node_type[n]), n),
      GL("UniformMatrix4fv", "u_mvp", SceneNode_mvp(n, view_projection_matrix), n),
      GL("UniformMatrix4fv", "u_model", current_transformation_matrix[n], n)>>
    \o SceneNode_texture_calls(n)
    \o <<GL("DrawElements", "TRIANGLES", index_count[n], n)>>

\* A mutant of SceneNode_draw_node: drawable is what has an index count, as in
\* draw_scene of main.rs.
SceneNode_draw_node_by_count(n, view_projection_matrix) ==
    IF index_count[n] # NoIndexCount
    THEN SceneNode_draw_calls(n, view_projection_matrix)
    ELSE <<>>

\* match self.node_type { Geometry | Geometry2d | Planet | Ocean | Skybox => ..., _ => () }
SceneNode_draw_node(n, view_projection_matrix) ==
    IF node_type[n] \in DrawnTypes
    THEN SceneNode_draw_calls(n, view_projection_matrix)
    ELSE <<>>

RECURSIVE SceneNode_draw_scene(_, _, _)
RECURSIVE SceneNode_draw_children(_, _, _, _)

\* A mutant of SceneNode_draw_scene: the recursion inside the arm of the match.
SceneNode_draw_scene_pruned(n, view_projection_matrix, log) ==
    IF node_type[n] \in DrawnTypes
    THEN SceneNode_draw_children(n, 1, view_projection_matrix,
            Append(log, GL("draw_scene", "", 0, n))
            \o SceneNode_draw_node(n, view_projection_matrix))
    ELSE Append(log, GL("draw_scene", "", 0, n))

SceneNode_draw_scene(n, view_projection_matrix, log) ==
    SceneNode_draw_children(n, 1, view_projection_matrix,
        Append(log, GL("draw_scene", "", 0, n))
        \o SceneNode_draw_node(n, view_projection_matrix))

\* for &child in &self.children, from the i-th child on
SceneNode_draw_children(n, i, view_projection_matrix, log) ==
    IF i > Len(children[n])
    THEN log
    ELSE SceneNode_draw_children(n, i + 1, view_projection_matrix,
            SceneNode_draw_scene(children[n][i], view_projection_matrix, log))

\* draw_scene of main.rs: drawable is what has an index count.
draw_node(n, view_projection_matrix) ==
    IF index_count[n] # NoIndexCount
    THEN <<GL("BindVertexArray", "", vao[n], n),
           GL("UniformMatrix4fv", "u_mvp",
              MatMul(view_projection_matrix, current_transformation_matrix[n]), n),
           GL("UniformMatrix4fv", "u_model", current_transformation_matrix[n], n),
           GL("DrawElements", "TRIANGLES", index_count[n], n)>>
    ELSE <<>>

RECURSIVE draw_scene(_, _, _)
RECURSIVE draw_children(_, _, _, _)

draw_scene(n, view_projection_matrix, log) ==
    draw_children(n, 1, view_projection_matrix,
        Append(log, GL("draw_scene", "", 0, n))
        \o draw_node(n, view_projection_matrix))

draw_children(n, i, view_projection_matrix, log) ==
    IF i > Len(children[n])
    THEN log
    ELSE draw_children(n, i + 1, view_projection_matrix,
            draw_scene(children[n][i], view_projection_matrix, log))

\* The entries of a log that node n issued with operation op.
Calls(log, op, n) == {i \in 1..Len(log) : log[i].op = op /\ log[i].node = n}

\* The entries that set uniform `name` for node n.
UniformCalls(log, name, n) ==
    {i \in 1..Len(log) : log[i].name = name /\ log[i].node = n}

(***************************************************************************)
(* Trees.  children[n] is the node's child list in stored order; a node    *)
(* is in at most one list, once, and no node is reachable from itself.     *)
(* The nodes are numbered so that a child has a larger number than its     *)
(* parent; the order of the children in a list is free.                    *)
(***************************************************************************)
RECURSIVE SeqsOver(_, _)
\* The sequences over S of length at most k.
SeqsOver(S, k) ==
    IF k = 0
    THEN {<<>>}
    ELSE LET shorter == SeqsOver(S, k - 1)
         IN  shorter \cup {Append(s, x) : s \in shorter, x \in S}

Range(s) == {s[i] : i \in 1..Len(s)}

NoDup(s) == \A i, j \in 1..Len(s) : i # j => s[i] # s[j]

ChildLists == {s \in SeqsOver(Nodes \ {Root}, MaxNodes - 1) : NoDup(s)}

ParentsOf(ch, c) == {p \in Nodes : c \in Range(ch[p])}

RECURSIVE DepthOK(_, _, _)
\* Following parents from n ends within k steps.
DepthOK(ch, n, k) ==
    \/ ParentsOf(ch, n) = {}
    \/ /\ k > 0
       /\ \A p \in ParentsOf(ch, n) : DepthOK(ch, p, k - 1)

IsForest(ch) ==
    /\ \A c \in Nodes : Cardinality(ParentsOf(ch, c)) <= 1
    /\ \A c \in Nodes : \A p \in ParentsOf(ch, c) : p < c
    /\ \A n \in Nodes : DepthOK(ch, n, MaxNodes)

Forests == {ch \in [Nodes -> ChildLists] : IsForest(ch)}

Parent(n) == CHOOSE p \in Nodes : n \in Range(children[p])

HasParent(n) == \E p \in Nodes : n \in Range(children[p])

RECURSIVE PreOrder(_)
RECURSIVE PreOrderFrom(_, _)
\* The nodes under n, n first, each child's subtree in stored order.
PreOrder(n) == <<n>> \o PreOrderFrom(n, 1)

PreOrderFrom(n, i) ==
    IF i > Len(children[n])
    THEN <<>>
    ELSE PreOrder(children[n][i]) \o PreOrderFrom(n, i + 1)

Reachable == Range(PreOrder(Root))

RECURSIVE PathProduct(_)
\* The local transforms on the path from the root down to n, multiplied in
\* that order from the left.
PathProduct(n) ==
    IF HasParent(n)
    THEN MatMul(PathProduct(Parent(n)), SceneNode_transform(n))
    ELSE MatMul(identity, SceneNode_transform(n))

(***************************************************************************)
(* The node factories.                                                     *)
(***************************************************************************)
\* What new, with_type and from_vao give every node alike.
FactoryTransform ==
    /\ position = [n \in Nodes |-> zero]
    /\ rotation = [n \in Nodes |-> zero]
    /\ scale = [n \in Nodes |-> <<1, 1, 1>>]
    /\ reference_point = [n \in Nodes |-> zero]
    /\ current_transformation_matrix = [n \in Nodes |-> identity]

\* The values the fields of a transform are set to.
FactoryPose ==
    [position |-> zero, rotation |-> zero, scale |-> <<1, 1, 1>>,
     reference_point |-> zero]

PoseA ==
    [position |-> <<1, 0, 0>>, rotation |-> <<0, 1, 0>>, scale |-> <<2, 1, 1>>,
     reference_point |-> zero]

PoseB ==
    [position |-> <<0, 2, 0>>, rotation |-> <<1, 0, 1>>, scale |-> <<1, 3, 1>>,
     reference_point |-> <<1, 0, 0>>]

PoseC ==
    [position |-> <<0, 0, 1>>, rotation |-> <<1, 1, 1>>, scale |-> <<1, 1, 2>>,
     reference_point |-> <<0, 1, 0>>]

Poses == {PoseA, PoseB, PoseC}

NoTrace ==
    /\ writeLog = <<>>
    /\ updatedFrom = 0
    /\ overwrote = FALSE
    /\ stale = TRUE
    /\ glLog = <<>>
    /\ drawnWith = identity

(***************************************************************************)
(* The GL context: how many vertex arrays and buffers were generated, the  *)
(* vertex array that is bound, the element buffer each vertex array refers *)
(* to and the number of indices each buffer holds.  Name 0 is no object.   *)
(***************************************************************************)
GLStart ==
    [vaos |-> 0, buffers |-> 0, bound_vao |-> 0,
     element_buffer |-> [v \in {0} |-> 0], buffer_len |-> <<>>]

\* No node was made or changed by a call yet.
NoCall == [op |-> "none"]

\* The context before any upload, and no node with a handle.
NothingUploaded ==
    /\ ibo = [n \in Nodes |-> 0]
    /\ gl = GLStart
    /\ built = NoCall

\* gl::BindVertexArray
BindVertexArray(g, v) == [g EXCEPT !.bound_vao = v]

RECURSIVE BoundAfter(_, _, _)
\* The context after the calls of a draw traversal, from the i-th on.
BoundAfter(g, log, i) ==
    IF i > Len(log)
    THEN g
    ELSE BoundAfter(IF log[i].op = "BindVertexArray"
                    THEN BindVertexArray(g, log[i].val) ELSE g,
                    log, i + 1)

(***************************************************************************)
(* main: what the threads share.                                           *)
(***************************************************************************)
\* The key codes the event loop and the render loop tell apart.
KeyCodes == {"W", "A", "Escape"}

NoEvent == [kind |-> "None", key |-> "", state |-> "", delta |-> <<0, 0>>]

\* main before the threads run: no key pressed, no mouse movement, the render
\* thread healthy, no lock held.
ThreadsStart ==
    /\ pressed_keys = <<>>
    /\ mouse_delta = <<0, 0>>
    /\ render_thread_healthy = TRUE
    /\ keysLock = "free"
    /\ mouseLock = "free"
    /\ healthLock = "free"
    /\ pcRender = "setup"
    /\ key_index = 1
    /\ keys_seen = <<>>
    /\ h_angle = 0
    /\ v_angle = 0
    /\ frameTrace = <<>>
    /\ pcEvent = "wait"
    /\ event = NoEvent
    /\ control_flow = "Wait"
    /\ events = 0
    /\ pcWatchdog = "join"
    /\ last_key_state = [k \in KeyCodes |-> "Released"]
    /\ mouse_added = <<0, 0>>

(***************************************************************************)
(* SpecUpdate: a tree of nodes whose transform fields are written and      *)
(* whose world transforms are recomputed.  It starts with the tree built:  *)
(* the nodes made by a factory, their transform fields set, the children   *)
(* added, and no pass run yet.                                             *)
(***************************************************************************)
InitUpdate ==
    /\ \E pose \in [Nodes -> Poses \cup {FactoryPose}] :
          /\ position = [n \in Nodes |-> pose[n].position]
          /\ rotation = [n \in Nodes |-> pose[n].rotation]
          /\ scale = [n \in Nodes |-> pose[n].scale]
          /\ reference_point = [n \in Nodes |-> pose[n].reference_point]
    /\ current_transformation_matrix = [n \in Nodes |-> identity]
    /\ node_type = [n \in Nodes |-> "Empty"]
    /\ vao = [n \in Nodes |-> DefaultVao]
    /\ index_count = [n \in Nodes |-> NoIndexCount]
    /\ texture_id = [n \in Nodes |-> None]
    /\ children \in Forests
    /\ NoTrace
    /\ ThreadsStart
    /\ NothingUploaded

\* Whether a pass that ends in `done` replaced the matrix of a node with
\* children by a different one.
Overwrites(done) ==
    \E i \in 1..Len(done.log) :
        /\ children[done.log[i]] # <<>>
        /\ done.ctm[done.log[i]] # current_transformation_matrix[done.log[i]]
        /\ current_transformation_matrix[done.log[i]] # identity

\* The owner of a node writes its public transform fields, one node between
\* two passes from the root.
SetTransform(n, pose) ==
    /\ ~stale
    /\ position' = [position EXCEPT ![n] = pose.position]
    /\ rotation' = [rotation EXCEPT ![n] = pose.rotation]
    /\ scale' = [scale EXCEPT ![n] = pose.scale]
    /\ reference_point' = [reference_point EXCEPT ![n] = pose.reference_point]
    /\ stale' = TRUE
    /\ writeLog' = <<>>
    /\ updatedFrom' = 0
    /\ overwrote' = FALSE
    /\ UNCHANGED <<node_type, current_transformation_matrix, vao, index_count,
                   texture_id, children, glLog, drawnWith>>
    /\ UNCHANGED threadVars
    /\ UNCHANGED buildVars

\* scene_root.update_node_transformations(&glm::identity())
UpdateRoot ==
    \E done \in {SceneNode_update_node_transformations(Root, identity, PassStart)} :
        /\ current_transformation_matrix' = done.ctm
        /\ writeLog' = done.log
        /\ updatedFrom' = Root
        /\ overwrote' = Overwrites(done)
        /\ stale' = FALSE
        /\ UNCHANGED <<position, rotation, scale, reference_point, node_type, vao,
                       index_count, texture_id, children, glLog, drawnWith>>
        /\ UNCHANGED threadVars
    /\ UNCHANGED buildVars

\* update_node_transformations(&mut scene_root, &glm::identity())
UpdateRootFree ==
    \E done \in {update_node_transformations(Root, identity, PassStart)} :
        /\ current_transformation_matrix' = done.ctm
        /\ writeLog' = done.log
        /\ updatedFrom' = Root
        /\ overwrote' = Overwrites(done)
        /\ stale' = FALSE
        /\ UNCHANGED <<position, rotation, scale, reference_point, node_type, vao,
                       index_count, texture_id, children, glLog, drawnWith>>
        /\ UNCHANGED threadVars
    /\ UNCHANGED buildVars

\* n.update_node_transformations(&parent.current_transformation_matrix), for a
\* node n below the root.
UpdateSubtree(n) ==
    /\ n \in Reachable \ {Root}
    /\ \E done \in {SceneNode_update_node_transformations(
                        n, current_transformation_matrix[Parent(n)], PassStart)} :
           /\ current_transformation_matrix' = done.ctm
           /\ writeLog' = done.log
           /\ updatedFrom' = n
           /\ overwrote' = Overwrites(done)
    /\ UNCHANGED <<position, rotation, scale, reference_point, node_type, vao,
                   index_count, texture_id, children, stale, glLog, drawnWith>>
    /\ UNCHANGED threadVars
    /\ UNCHANGED buildVars

NextUpdate ==
    \/ \E n \in Nodes, pose \in Poses \cup {FactoryPose} : SetTransform(n, pose)
    \/ UpdateRoot
    \/ UpdateRootFree
    \/ \E n \in Nodes : UpdateSubtree(n)

SpecUpdate == InitUpdate /\ [][NextUpdate]_vars

(***************************************************************************)
(* C2.  After update_node_transformations(root, identity), and until a     *)
(* transform field is written again, the cached world transform of every   *)
(* node under the root is its parent's cached world transform times its    *)
(* own local transform (identity times it, for the root), and is the       *)
(* product of the local transforms on the path from the root to the node,  *)
(* in that order.  A recomputation of a subtree from its parent's world    *)
(* transform (UpdateSubtree) keeps both.                                   *)
(***************************************************************************)
C2_WorldIsPathProduct ==
    ~stale =>
        \A n \in Reachable :
            /\ current_transformation_matrix[n] =
                   MatMul(IF n = Root
                          THEN identity
                          ELSE current_transformation_matrix[Parent(n)],
                          SceneNode_transform(n))
            /\ current_transformation_matrix[n] = PathProduct(n)

\* A subtree two levels below the root has just been recomputed from its
\* parent's world transform, and its transform does not commute with its
\* parent's.
C2_Witness ==
    /\ ~stale
    /\ updatedFrom \in Reachable \ {Root}
    /\ Parent(updatedFrom) # Root
    /\ MatMul(SceneNode_transform(Parent(updatedFrom)), SceneNode_transform(updatedFrom))
         # MatMul(SceneNode_transform(updatedFrom), SceneNode_transform(Parent(updatedFrom)))
    /\ SceneNode_transform(Root) # identity

(***************************************************************************)
(* C3.  A pass writes the nodes in pre-order, depth first, the children    *)
(* of a node in their stored order: the parent of every node written is    *)
(* written earlier in the same pass, and the node's world transform is     *)
(* the product of the value its parent got in this pass and its own local  *)
(* transform.                                                              *)
(***************************************************************************)
C3_PreOrderFromFreshParent ==
    updatedFrom # 0 =>
        /\ writeLog = PreOrder(updatedFrom)
        /\ \A i \in 2..Len(writeLog) :
              /\ \E j \in 1..(i - 1) : writeLog[j] = Parent(writeLog[i])
              /\ current_transformation_matrix[writeLog[i]] =
                     MatMul(current_transformation_matrix[Parent(writeLog[i])],
                            SceneNode_transform(writeLog[i]))

\* A pass from the root, whose children are stored out of the order of their
\* numbers, has replaced a matrix an earlier pass had left in a node with
\* children.
C3_Witness ==
    /\ updatedFrom = Root
    /\ overwrote
    /\ Len(children[Root]) >= 2
    /\ children[Root][1] > children[Root][2]
    /\ Len(writeLog) = MaxNodes
(***************************************************************************)
(* SpecDraw: a tree of nodes of every kind, drawn.  One node is of any     *)
(* type, made with or without a draw handle and with or without a          *)
(* texture; every other node is a light without a handle or a geometry     *)
(* with one.  Every node has a transform other than the identity.          *)
(***************************************************************************)
\* The handle mkvao returns for the mesh of node n: the name of its vertex
\* array and its index count.
MeshHandle(n) == [vao |-> n, ibo |-> 4 * n - 3, n |-> 3 * n]

\* The context after mkvao ran once for every node, in the order of the
\* nodes: four buffers a mesh, the index buffer first.
GLUploaded ==
    [vaos |-> MaxNodes, buffers |-> 4 * MaxNodes, bound_vao |-> MaxNodes,
     element_buffer |->
        [v \in 0..MaxNodes |-> IF v = 0 THEN 0 ELSE MeshHandle(v).ibo],
     buffer_len |->
        [b \in 1..(4 * MaxNodes) |->
            IF b % 4 = 1 THEN MeshHandle((b + 3) \div 4).n ELSE 0]]

\* The nodes that have a handle hold the one of their mesh.
HandlesUploaded ==
    /\ ibo = [n \in Nodes |->
                IF index_count[n] = NoIndexCount THEN 0 ELSE MeshHandle(n).ibo]
    /\ gl = GLUploaded
    /\ built = NoCall

Textures == {None, Some(1)}

\* perspective_mat * cam, for two cameras.
ViewProjections ==
    {translate(identity, <<0, 0, 0 - 3>>),
     scale_by(translate(identity, <<1, 0, 0 - 2>>), <<2, 2, 1>>)}

InitDraw ==
    /\ position = [n \in Nodes |-> PoseA.position]
    /\ rotation = [n \in Nodes |-> PoseA.rotation]
    /\ scale = [n \in Nodes |-> PoseA.scale]
    /\ reference_point = [n \in Nodes |-> PoseA.reference_point]
    /\ current_transformation_matrix = [n \in Nodes |-> identity]
    /\ children \in Forests
    /\ \E s \in Nodes, t \in SceneNodeType, handle \in BOOLEAN, tex \in Textures,
          lights \in SUBSET Nodes :
          /\ s \notin lights
          /\ node_type = [n \in Nodes |->
                            IF n = s THEN t
                            ELSE IF n \in lights THEN "LightSource" ELSE "Geometry"]
          /\ vao = [n \in Nodes |->
                      IF (n = s /\ ~handle) \/ n \in lights
                      THEN DefaultVao ELSE MeshHandle(n).vao]
          /\ index_count = [n \in Nodes |->
                              IF (n = s /\ ~handle) \/ n \in lights
                              THEN NoIndexCount ELSE MeshHandle(n).n]
          /\ texture_id = [n \in Nodes |-> IF n = s THEN tex ELSE None]
    /\ NoTrace
    /\ ThreadsStart
    /\ HandlesUploaded

\* scene_root.update_node_transformations(&glm::identity()); the calls of an
\* earlier traversal are forgotten.
DrawUpdate ==
    /\ stale
    /\ \E done \in {SceneNode_update_node_transformations(Root, identity, PassStart)} :
          /\ current_transformation_matrix' = done.ctm
          /\ writeLog' = done.log
          /\ overwrote' = Overwrites(done)
    /\ updatedFrom' = Root
    /\ stale' = FALSE
    /\ glLog' = <<>>
    /\ UNCHANGED <<position, rotation, scale, reference_point, node_type, vao,
                   index_count, texture_id, children, drawnWith>>
    /\ UNCHANGED threadVars
    /\ UNCHANGED buildVars

\* scene_root.draw_scene(&view_projection_matrix, &sh)
Draw(view_projection_matrix) ==
    /\ glLog' = SceneNode_draw_scene(Root, view_projection_matrix, <<>>)
    /\ drawnWith' = view_projection_matrix
    /\ UNCHANGED <<sceneVars, writeLog, updatedFrom, overwrote, stale>>
    /\ UNCHANGED threadVars
    /\ gl' = BoundAfter(gl, glLog', 1)
    /\ UNCHANGED <<ibo, built>>

NextDraw ==
    \/ DrawUpdate
    \/ \E vp \in ViewProjections : Draw(vp)

SpecDraw == InitDraw /\ [][NextDraw]_vars

\* A traversal has run.
Drawn == glLog # <<>>

(***************************************************************************)
(* C4.  In a draw traversal a node of type Empty or LightSource issues no  *)
(* draw call, and each of its children is visited once; a LightSource      *)
(* root with one geometry child and nothing else yields one draw call.     *)
(***************************************************************************)
C4_NoGeometryNoDraw ==
    Drawn =>
        /\ \A n \in Reachable :
              node_type[n] \in {"Empty", "LightSource"} =>
                  /\ {i \in 1..Len(glLog) :
                         glLog[i].node = n /\ glLog[i].op # "draw_scene"} = {}
                  /\ \A i \in 1..Len(children[n]) :
                         Cardinality(Calls(glLog, "draw_scene", children[n][i])) = 1
        /\ ( /\ node_type[Root] = "LightSource"
             /\ Len(children[Root]) = 1
             /\ children[children[Root][1]] = <<>>
             /\ node_type[children[Root][1]] \in DrawnTypes )
           => Cardinality({i \in 1..Len(glLog) : glLog[i].op = "DrawElements"}) = 1

\* A LightSource root holding one geometry child, and nothing else under it,
\* has been drawn with one draw call.
C4_Witness ==
    /\ Drawn
    /\ node_type[Root] = "LightSource"
    /\ Len(children[Root]) = 1
    /\ children[children[Root][1]] = <<>>
    /\ node_type[children[Root][1]] = "Geometry"
    /\ Cardinality({i \in 1..Len(glLog) : glLog[i].op = "DrawElements"}) = 1

(***************************************************************************)
(* C5.  In a draw traversal from the root every node under the root is     *)
(* visited once, and every one of type Geometry, Geometry2d, Planet, Ocean *)
(* or Skybox issues one DrawElements of TRIANGLES with its index_count,    *)
(* after binding its vertex array and setting u_node_type, u_mvp, u_model  *)
(* and u_has_texture; the other nodes and the nodes not under the root     *)
(* issue none.                                                             *)
(***************************************************************************)
C5_OneDrawPerGeometryNode ==
    Drawn =>
        /\ \A n \in Nodes :
              Cardinality(Calls(glLog, "draw_scene", n)) =
                  (IF n \in Reachable THEN 1 ELSE 0)
        /\ \A n \in Nodes :
              Cardinality(Calls(glLog, "DrawElements", n)) =
                  (IF n \in Reachable /\ node_type[n] \in DrawnTypes THEN 1 ELSE 0)
        /\ \A d \in 1..Len(glLog) :
              glLog[d].op = "DrawElements" =>
                  /\ glLog[d].name = "TRIANGLES"
                  /\ glLog[d].val = index_count[glLog[d].node]
                  /\ \E i \in Calls(glLog, "BindVertexArray", glLog[d].node) :
                         i < d /\ glLog[i].val = vao[glLog[d].node]
                  /\ \A u \in {"u_node_type", "u_mvp", "u_model", "u_has_texture"} :
                         \E i \in UniformCalls(glLog, u, glLog[d].node) : i < d
                  /\ \A i \in UniformCalls(glLog, "u_node_type", glLog[d].node) :
                         glLog[i].val = TypeCode(node_type[glLog[d].node])

\* A traversal has drawn a node below a node that drew and a node below a node
\* that did not.
C5_Witness ==
    /\ Drawn
    /\ \E n, m \in Reachable \ {Root} :
          /\ node_type[Parent(n)] \in DrawnTypes
          /\ node_type[Parent(m)] \notin DrawnTypes
          /\ node_type[n] \in {"Planet", "Ocean", "Skybox", "Geometry2d"}
          /\ Calls(glLog, "DrawElements", n) # {}
          /\ Calls(glLog, "DrawElements", m) # {}

(***************************************************************************)
(* C6.  No draw call is issued for a node without a draw handle (made by   *)
(* with_type: index_count = -1 and the default vertex array).              *)
(***************************************************************************)
C6_NoDrawWithoutHandle ==
    \A i \in 1..Len(glLog) :
        glLog[i].op = "DrawElements" =>
            /\ index_count[glLog[i].node] # NoIndexCount
            /\ vao[glLog[i].node] # DefaultVao

(***************************************************************************)
(* C7, as claimed.  With the matrices up to date, the u_mvp of a           *)
(* Geometry2d node is the node's local transform.                          *)
(***************************************************************************)
C7_Geometry2dUsesLocal ==
    (Drawn /\ ~stale) =>
        \A i \in 1..Len(glLog) :
            (glLog[i].name = "u_mvp" /\ node_type[glLog[i].node] = "Geometry2d")
                => glLog[i].val = SceneNode_transform(glLog[i].node)

(***************************************************************************)
(* C7, amended.  The u_mvp of a Geometry2d node is the node's cached       *)
(* world transform, whatever the view-projection matrix; the u_mvp of any  *)
(* other drawn node is the view-projection matrix times the node's cached  *)
(* world transform.                                                        *)
(***************************************************************************)
C7_Geometry2dUsesWorld ==
    Drawn =>
        \A i \in 1..Len(glLog) :
            glLog[i].name = "u_mvp" =>
                glLog[i].val =
                    (IF node_type[glLog[i].node] = "Geometry2d"
                     THEN current_transformation_matrix[glLog[i].node]
                     ELSE MatMul(drawnWith,
                                 current_transformation_matrix[glLog[i].node]))

\* A Geometry2d node below the root and another drawn node have been drawn
\* with the matrices up to date; the Geometry2d node's world transform is not
\* its local one, and the camera would have changed it.
C7_Witness ==
    /\ Drawn
    /\ ~stale
    /\ \E n, m \in Reachable :
          /\ node_type[n] = "Geometry2d"
          /\ node_type[m] = "Geometry"
          /\ UniformCalls(glLog, "u_mvp", n) # {}
          /\ UniformCalls(glLog, "u_mvp", m) # {}
          /\ current_transformation_matrix[n] # SceneNode_transform(n)
          /\ MatMul(drawnWith, current_transformation_matrix[n])
                # current_transformation_matrix[n]

(***************************************************************************)
(* Spec: the three threads of main.  The render thread builds the scene    *)
(* and runs the frame loop; the event thread runs the handler of the event *)
(* loop once per event; the watchdog joins the render thread.  A step is   *)
(* one lock operation, or the code a thread runs between two of them.      *)
(***************************************************************************)
\* How many keyboard, mouse and close events the window sends.
MaxEvents == 3

KeyStates == {"Pressed", "Released"}

\* DeviceEvent::MouseMotion { delta }
MouseDeltas == {<<1, 2>>, <<0 - 1, 0>>}

\* The events the handler tells apart; every other event is "Other".
InputEvents ==
    {[kind |-> "Key", key |-> k, state |-> s, delta |-> <<0, 0>>] :
        k \in KeyCodes, s \in KeyStates}
    \cup {[kind |-> "Mouse", key |-> "", state |-> "", delta |-> d] :
            d \in MouseDeltas}
    \cup {[kind |-> "Close", key |-> "", state |-> "", delta |-> <<0, 0>>]}

OtherEvent == [kind |-> "Other", key |-> "", state |-> "", delta |-> <<0, 0>>]

\* The cube of the render thread's scene.
Cube == 2

\* let cube_node = SceneNode::from_vao(cube_vao.vao, cube_vao.n);
\* let mut scene_root = SceneNode::new(); scene_root.add_child(&cube_node);
\* The nodes above Cube are made and left out of the scene.
Init ==
    /\ FactoryTransform
    /\ node_type = [n \in Nodes |-> IF n = Cube THEN "Geometry" ELSE "Empty"]
    /\ vao = [n \in Nodes |-> IF n = Cube THEN MeshHandle(n).vao ELSE DefaultVao]
    /\ index_count =
          [n \in Nodes |-> IF n = Cube THEN MeshHandle(n).n ELSE NoIndexCount]
    /\ texture_id = [n \in Nodes |-> None]
    /\ children = [n \in Nodes |-> IF n = Root THEN <<Cube>> ELSE <<>>]
    /\ NoTrace
    /\ ThreadsStart
    /\ HandlesUploaded

\* ControlFlow::Exit ends the process, and with it every thread.
Running == pcEvent # "exited"

\* A mutant of lock: a lock that excludes nobody.
lock_unchecked(l) == TRUE

\* Mutex::lock and RwLock::read/write return when no other thread holds the
\* lock.
lock(l) == l = "free"

\* A mutant of unlock: a guard that lives on after its block.
unlock_late(l) == l

\* The guard is dropped at the end of its `if let` block.
unlock(l) == "free"

\* A mutant of RenderAfter: the draw traversal before the update.
RenderAfter_draw_first(step) ==
    CASE step = "mouse" -> "draw"
      [] step = "draw" -> "update"
      [] step = "update" -> "swap"

\* The steps of one frame after the input is sampled, each with the step
\* that follows it.
RenderAfter(step) ==
    CASE step = "mouse" -> "update"
      [] step = "update" -> "draw"
      [] step = "draw" -> "swap"

\* A mutant of key_pressed: the push without the test.
key_pressed_unchecked(keys, keycode) == Append(keys, keycode)

\* if !keys.contains(&keycode) { keys.push(keycode); }
key_pressed(keys, keycode) ==
    IF keycode \in Range(keys) THEN keys ELSE Append(keys, keycode)

\* keys.iter().position(|&k| k == keycode)
key_position(keys, keycode) ==
    CHOOSE i \in 1..Len(keys) :
        /\ keys[i] = keycode
        /\ \A j \in 1..(i - 1) : keys[j] # keycode

\* keys.remove(i)
key_remove(keys, i) ==
    SubSeq(keys, 1, i - 1) \o SubSeq(keys, i + 1, Len(keys))

\* if keys.contains(&keycode) { ... keys.remove(i); }
key_released(keys, keycode) ==
    IF keycode \in Range(keys)
    THEN key_remove(keys, key_position(keys, keycode))
    ELSE keys

\* *position = (position.0 + delta.0 as f32, position.1 + delta.1 as f32)
mouse_accumulate(acc, delta) == <<acc[1] + delta[1], acc[2] + delta[2]>>

\* The fields of the nodes that no thread writes after the scene is built.
sceneFields ==
    <<position, rotation, scale, reference_point, node_type, vao, index_count,
      texture_id, children>>

watchdogVars == <<pcWatchdog, render_thread_healthy, healthLock>>

(***************************************************************************)
(* The render thread.                                                      *)
(***************************************************************************)
\* unsafe { update_node_transformations(&mut scene_root, &glm::identity()); }
\* and the rest of the set-up, up to the frame loop.
R_setup ==
    /\ Running
    /\ pcRender = "setup"
    /\ \E done \in {update_node_transformations(Root, identity, PassStart)} :
          /\ current_transformation_matrix' = done.ctm
          /\ overwrote' = Overwrites(done)
    /\ updatedFrom' = Root
    /\ stale' = FALSE
    /\ pcRender' = "keys_lock"
    /\ UNCHANGED <<sceneFields, writeLog, glLog, drawnWith>>
    /\ UNCHANGED <<sharedVars, key_index, keys_seen, h_angle, v_angle, frameTrace,
                   eventVars, pcWatchdog>>
    /\ UNCHANGED buildVars

\* A frame starts; if let Ok(keys) = pressed_keys.lock()
R_keys_lock ==
    /\ Running
    /\ pcRender = "keys_lock"
    /\ lock(keysLock)
    /\ keysLock' = "render"
    /\ key_index' = 1
    /\ keys_seen' = <<>>
    /\ frameTrace' = <<>>
    /\ writeLog' = <<>>
    /\ glLog' = <<>>
    /\ pcRender' = "keys_iter"
    /\ UNCHANGED <<sceneVars, updatedFrom, overwrote, stale, drawnWith>>
    /\ UNCHANGED <<pressed_keys, mouse_delta, mouseLock, watchdogVars, h_angle,
                   v_angle, eventVars>>
    /\ UNCHANGED buildVars

\* for key in keys.iter() { match key { ... } }: one key.
R_keys_read ==
    /\ Running
    /\ pcRender = "keys_iter"
    /\ key_index <= Len(pressed_keys)
    /\ keys_seen' = Append(keys_seen, pressed_keys[key_index])
    /\ key_index' = key_index + 1
    /\ UNCHANGED <<sceneVars, traceVars, sharedVars, pcRender, h_angle, v_angle,
                   frameTrace, eventVars, pcWatchdog>>
    /\ UNCHANGED buildVars

\* The iteration is over and the guard is dropped.
R_keys_unlock ==
    /\ Running
    /\ pcRender = "keys_iter"
    /\ key_index > Len(pressed_keys)
    /\ keysLock' = unlock(keysLock)
    /\ frameTrace' = Append(frameTrace, "keys")
    /\ pcRender' = "mouse_lock"
    /\ UNCHANGED <<sceneVars, traceVars, pressed_keys, mouse_delta, mouseLock,
                   watchdogVars, key_index, keys_seen, h_angle, v_angle,
                   eventVars>>
    /\ UNCHANGED buildVars

\* if let Ok(mut delta) = mouse_delta.lock()
R_mouse_lock ==
    /\ Running
    /\ pcRender = "mouse_lock"
    /\ lock(mouseLock)
    /\ mouseLock' = "render"
    /\ pcRender' = "mouse_read"
    /\ UNCHANGED <<sceneVars, traceVars, pressed_keys, mouse_delta, keysLock,
                   watchdogVars, key_index, keys_seen, h_angle, v_angle,
                   frameTrace, eventVars>>
    /\ UNCHANGED buildVars

\* h_angle -= (*delta).0 * delta_time * mouse_speed; and the same for v_angle,
\* with delta_time * mouse_speed taken as the unit.
R_mouse_read ==
    /\ Running
    /\ pcRender = "mouse_read"
    /\ h_angle' = h_angle - mouse_delta[1]
    /\ v_angle' = v_angle - mouse_delta[2]
    /\ pcRender' = "mouse_reset"
    /\ UNCHANGED <<sceneVars, traceVars, sharedVars, key_index, keys_seen,
                   frameTrace, eventVars, pcWatchdog>>
    /\ UNCHANGED buildVars

\* *delta = (0.0, 0.0); and the guard is dropped.
R_mouse_reset ==
    /\ Running
    /\ pcRender = "mouse_reset"
    /\ mouse_delta' = <<0, 0>>
    /\ mouseLock' = unlock(mouseLock)
    /\ frameTrace' = Append(frameTrace, "mouse")
    /\ pcRender' = RenderAfter("mouse")
    /\ UNCHANGED <<sceneVars, traceVars, pressed_keys, keysLock, watchdogVars,
                   key_index, keys_seen, h_angle, v_angle, eventVars>>
    /\ UNCHANGED buildVars

\* update_node_transformations(&mut scene_root, &glm::identity());
R_update ==
    /\ Running
    /\ pcRender = "update"
    /\ \E done \in {update_node_transformations(Root, identity, PassStart)} :
          /\ current_transformation_matrix' = done.ctm
          /\ writeLog' = done.log
          /\ overwrote' = Overwrites(done)
    /\ updatedFrom' = Root
    /\ stale' = FALSE
    /\ frameTrace' = Append(frameTrace, "update")
    /\ pcRender' = RenderAfter("update")
    /\ UNCHANGED <<sceneFields, glLog, drawnWith>>
    /\ UNCHANGED <<sharedVars, key_index, keys_seen, h_angle, v_angle, eventVars,
                   pcWatchdog>>
    /\ UNCHANGED buildVars

\* draw_scene(&scene_root, &perspective_view, &sh);
R_draw(perspective_view) ==
    /\ Running
    /\ pcRender = "draw"
    /\ glLog' = draw_scene(Root, perspective_view, <<>>)
    /\ drawnWith' = perspective_view
    /\ frameTrace' = Append(frameTrace, "draw")
    /\ pcRender' = RenderAfter("draw")
    /\ UNCHANGED <<sceneVars, writeLog, updatedFrom, overwrote, stale>>
    /\ UNCHANGED <<sharedVars, key_index, keys_seen, h_angle, v_angle, eventVars,
                   pcWatchdog>>
    /\ gl' = BoundAfter(gl, glLog', 1)
    /\ UNCHANGED <<ibo, built>>

\* context.swap_buffers() returns Ok: the frame is over.
R_swap ==
    /\ Running
    /\ pcRender = "swap"
    /\ frameTrace' = Append(frameTrace, "swap")
    /\ pcRender' = "keys_lock"
    /\ UNCHANGED <<sceneVars, traceVars, sharedVars, key_index, keys_seen, h_angle,
                   v_angle, eventVars, pcWatchdog>>
    /\ UNCHANGED buildVars

\* windowed_context.make_current().unwrap() or context.swap_buffers().unwrap()
\* panics: the render thread ends, holding no lock.
R_panic ==
    /\ Running
    /\ pcRender \in {"setup", "swap"}
    /\ pcRender' = "panicked"
    /\ UNCHANGED <<sceneVars, traceVars, sharedVars, key_index, keys_seen, h_angle,
                   v_angle, frameTrace, eventVars, pcWatchdog>>
    /\ UNCHANGED buildVars

Render ==
    \/ R_setup
    \/ R_keys_lock
    \/ R_keys_read
    \/ R_keys_unlock
    \/ R_mouse_lock
    \/ R_mouse_read
    \/ R_mouse_reset
    \/ R_update
    \/ \E vp \in ViewProjections : R_draw(vp)
    \/ R_swap
    \/ R_panic

(***************************************************************************)
(* The event thread: el.run(move |event, _, control_flow| { ... }).        *)
(***************************************************************************)
\* The arm of `match event` the handler goes to after the health poll.
Dispatch(ev) ==
    CASE ev.kind = "Close" -> "close"
      [] ev.kind = "Key" -> "keys_lock"
      [] ev.kind = "Mouse" -> "mouse_lock"
      [] OTHER -> "end"

\* The event loop wakes the handler with an event;
\* *control_flow = ControlFlow::Wait;
E_event(ev) ==
    /\ Running
    /\ pcEvent = "wait"
    /\ ev.kind # "Other" => events < MaxEvents
    /\ event' = ev
    /\ events' = IF ev.kind = "Other" THEN events ELSE events + 1
    /\ last_key_state' =
          IF ev.kind = "Key"
          THEN [last_key_state EXCEPT ![ev.key] = ev.state]
          ELSE last_key_state
    /\ control_flow' = "Wait"
    /\ pcEvent' = "health_lock"
    /\ UNCHANGED <<sceneVars, traceVars, sharedVars, renderVars, pcWatchdog,
                   mouse_added>>
    /\ UNCHANGED buildVars

\* if let Ok(health) = render_thread_healthy.read()
E_health_lock ==
    /\ Running
    /\ pcEvent = "health_lock"
    /\ lock(healthLock)
    /\ healthLock' = "event"
    /\ pcEvent' = "health_read"
    /\ UNCHANGED <<sceneVars, traceVars, pressed_keys, mouse_delta,
                   render_thread_healthy, keysLock, mouseLock, renderVars, event,
                   control_flow, events, last_key_state, mouse_added, pcWatchdog>>
    /\ UNCHANGED buildVars

\* if *health == false { *control_flow = ControlFlow::Exit; } and the guard
\* is dropped.
E_health_read ==
    /\ Running
    /\ pcEvent = "health_read"
    /\ control_flow' = IF render_thread_healthy THEN control_flow ELSE "Exit"
    /\ healthLock' = unlock(healthLock)
    /\ pcEvent' = Dispatch(event)
    /\ UNCHANGED <<sceneVars, traceVars, pressed_keys, mouse_delta,
                   render_thread_healthy, keysLock, mouseLock, renderVars, event,
                   events, last_key_state, mouse_added, pcWatchdog>>
    /\ UNCHANGED buildVars

\* WindowEvent::CloseRequested => *control_flow = ControlFlow::Exit
E_close ==
    /\ Running
    /\ pcEvent = "close"
    /\ control_flow' = "Exit"
    /\ pcEvent' = "end"
    /\ UNCHANGED <<sceneVars, traceVars, sharedVars, renderVars, event, events,
                   last_key_state, mouse_added, pcWatchdog>>
    /\ UNCHANGED buildVars

\* if let Ok(mut keys) = arc_pressed_keys.lock()
E_keys_lock ==
    /\ Running
    /\ pcEvent = "keys_lock"
    /\ lock(keysLock)
    /\ keysLock' = "event"
    /\ pcEvent' = "keys_apply"
    /\ UNCHANGED <<sceneVars, traceVars, pressed_keys, mouse_delta, mouseLock,
                   watchdogVars, renderVars, event, control_flow, events,
                   last_key_state, mouse_added>>
    /\ UNCHANGED buildVars

\* match key_state { Released => ..., Pressed => ... }
E_keys_apply ==
    /\ Running
    /\ pcEvent = "keys_apply"
    /\ pressed_keys' =
          IF event.state = "Pressed"
          THEN key_pressed(pressed_keys, event.key)
          ELSE key_released(pressed_keys, event.key)
    /\ pcEvent' = "keys_unlock"
    /\ UNCHANGED <<sceneVars, traceVars, mouse_delta, keysLock, mouseLock,
                   watchdogVars, renderVars, event, control_flow, events,
                   last_key_state, mouse_added>>
    /\ UNCHANGED buildVars

\* The guard of the key list is dropped.
E_keys_unlock ==
    /\ Running
    /\ pcEvent = "keys_unlock"
    /\ keysLock' = unlock(keysLock)
    /\ pcEvent' = "escape"
    /\ UNCHANGED <<sceneVars, traceVars, pressed_keys, mouse_delta, mouseLock,
                   watchdogVars, renderVars, event, control_flow, events,
                   last_key_state, mouse_added>>
    /\ UNCHANGED buildVars

\* match keycode { Escape => *control_flow = ControlFlow::Exit, _ => { } }
E_escape ==
    /\ Running
    /\ pcEvent = "escape"
    /\ control_flow' = IF event.key = "Escape" THEN "Exit" ELSE control_flow
    /\ pcEvent' = "end"
    /\ UNCHANGED <<sceneVars, traceVars, sharedVars, renderVars, event, events,
                   last_key_state, mouse_added, pcWatchdog>>
    /\ UNCHANGED buildVars

\* if let Ok(mut position) = arc_mouse_delta.lock()
E_mouse_lock ==
    /\ Running
    /\ pcEvent = "mouse_lock"
    /\ lock(mouseLock)
    /\ mouseLock' = "event"
    /\ pcEvent' = "mouse_add"
    /\ UNCHANGED <<sceneVars, traceVars, pressed_keys, mouse_delta, keysLock,
                   watchdogVars, renderVars, event, control_flow, events,
                   last_key_state, mouse_added>>
    /\ UNCHANGED buildVars

\* *position = (position.0 + delta.0 as f32, position.1 + delta.1 as f32);
\* and the guard is dropped.
E_mouse_add ==
    /\ Running
    /\ pcEvent = "mouse_add"
    /\ mouse_delta' = mouse_accumulate(mouse_delta, event.delta)
    /\ mouse_added' = mouse_accumulate(mouse_added, event.delta)
    /\ mouseLock' = unlock(mouseLock)
    /\ pcEvent' = "end"
    /\ UNCHANGED <<sceneVars, traceVars, pressed_keys, keysLock, watchdogVars,
                   renderVars, event, control_flow, events, last_key_state>>
    /\ UNCHANGED buildVars

\* The handler returns: the event loop ends the process on ControlFlow::Exit
\* and waits for the next event on ControlFlow::Wait.
E_end ==
    /\ Running
    /\ pcEvent = "end"
    /\ pcEvent' = IF control_flow = "Exit" THEN "exited" ELSE "wait"
    /\ event' = NoEvent
    /\ UNCHANGED <<sceneVars, traceVars, sharedVars, renderVars, control_flow,
                   events, last_key_state, mouse_added, pcWatchdog>>
    /\ UNCHANGED buildVars

EventHandler ==
    \/ E_health_lock
    \/ E_health_read
    \/ E_close
    \/ E_keys_lock
    \/ E_keys_apply
    \/ E_keys_unlock
    \/ E_escape
    \/ E_mouse_lock
    \/ E_mouse_add
    \/ E_end

(***************************************************************************)
(* The watchdog thread.                                                    *)
(***************************************************************************)
\* A mutant of join_is_err: a join that does not wait.
join_is_err_anytime(pc) == TRUE

\* !render_thread.join().is_ok(): join returns when the render thread has
\* ended, and the frame loop ends by a panic only.
join_is_err(pc) == pc = "panicked"

W_join ==
    /\ Running
    /\ pcWatchdog = "join"
    /\ join_is_err(pcRender)
    /\ pcWatchdog' = "write_lock"
    /\ UNCHANGED <<sceneVars, traceVars, sharedVars, renderVars, eventVars>>
    /\ UNCHANGED buildVars

\* if let Ok(mut health) = render_thread_watchdog.write()
W_write_lock ==
    /\ Running
    /\ pcWatchdog = "write_lock"
    /\ lock(healthLock)
    /\ healthLock' = "watchdog"
    /\ pcWatchdog' = "set"
    /\ UNCHANGED <<sceneVars, traceVars, pressed_keys, mouse_delta,
                   render_thread_healthy, keysLock, mouseLock, renderVars,
                   eventVars>>
    /\ UNCHANGED buildVars

\* *health = false; and the guard is dropped.
W_set ==
    /\ Running
    /\ pcWatchdog = "set"
    /\ render_thread_healthy' = FALSE
    /\ healthLock' = unlock(healthLock)
    /\ pcWatchdog' = "done"
    /\ UNCHANGED <<sceneVars, traceVars, pressed_keys, mouse_delta, keysLock,
                   mouseLock, renderVars, eventVars>>
    /\ UNCHANGED buildVars

Watchdog ==
    \/ W_join
    \/ W_write_lock
    \/ W_set

Next ==
    \/ Render
    \/ \E ev \in InputEvents \cup {OtherEvent} : E_event(ev)
    \/ EventHandler
    \/ Watchdog

Spec == Init /\ [][Next]_vars

(***************************************************************************)
(* C1.  In every iteration of the frame loop the steps run in the order    *)
(* input sampling (keys, then mouse), transform update of the whole tree,  *)
(* draw traversal, buffer swap: whenever calls of the frame's draw         *)
(* traversal exist, update_node_transformations has returned for the whole *)
(* tree in that frame and the calls carry the matrices it wrote, and the   *)
(* swap comes only after the draw traversal has returned.                  *)
(***************************************************************************)
FrameOrder == <<"keys", "mouse", "update", "draw", "swap">>

C1_FrameOrder ==
    /\ Len(frameTrace) <= Len(FrameOrder)
    /\ frameTrace = SubSeq(FrameOrder, 1, Len(frameTrace))
    /\ glLog # <<>> =>
          /\ "update" \in Range(frameTrace)
          /\ writeLog = PreOrder(Root)
          /\ \A i \in 1..Len(glLog) :
                glLog[i].name = "u_model" =>
                    glLog[i].val = current_transformation_matrix[glLog[i].node]
    /\ (pcRender = "swap" \/ "swap" \in Range(frameTrace)) =>
          /\ "draw" \in Range(frameTrace)
          /\ Calls(glLog, "DrawElements", Cube) # {}

\* The second frame or a later one is complete: a key the event thread added
\* was sampled, the tree updated, the cube drawn and the buffers swapped.
C1_Witness ==
    /\ frameTrace = FrameOrder
    /\ keys_seen # <<>>
    /\ writeLog = <<Root, Cube>>
    /\ Calls(glLog, "DrawElements", Cube) # {}

(***************************************************************************)
(* C8.  Under every interleaving of the event thread's key events and the  *)
(* render thread's reads, pressed_keys never holds a key twice; whenever   *)
(* every key event sent so far is applied it holds exactly the keys whose  *)
(* last event was Pressed, so its length is their number; and the render   *)
(* thread iterates over it only between two complete applications: while   *)
(* it iterates the event thread is not inside an application and the list  *)
(* does not change under it.                                               *)
(***************************************************************************)
\* A key event has reached the handler and is not applied yet.
KeyEventPending ==
    /\ event.kind = "Key"
    /\ pcEvent \in {"health_lock", "health_read", "keys_lock", "keys_apply"}

KeysDown == {k \in KeyCodes : last_key_state[k] = "Pressed"}

C8_PressedKeysConsistent ==
    /\ NoDup(pressed_keys)
    /\ ~KeyEventPending =>
          /\ Range(pressed_keys) = KeysDown
          /\ Len(pressed_keys) = Cardinality(KeysDown)
    /\ pcRender = "keys_iter" =>
          /\ keysLock = "render"
          /\ pcEvent \notin {"keys_apply", "keys_unlock"}
          /\ key_index <= Len(pressed_keys) + 1
          /\ keys_seen = SubSeq(pressed_keys, 1, key_index - 1)
    /\ pcEvent \in {"keys_apply", "keys_unlock"} => keysLock = "event"
    /\ NoDup(keys_seen)

\* The render thread is in the middle of the list while the event thread
\* waits for the lock with a second Pressed event of a key in the list, and
\* another key is down.
C8_Witness ==
    /\ pcRender = "keys_iter"
    /\ keys_seen # <<>>
    /\ Len(pressed_keys) = 2
    /\ pcEvent = "keys_lock"
    /\ event.state = "Pressed"
    /\ event.key \in Range(pressed_keys)

(***************************************************************************)
(* C9.  The render thread reads and resets mouse_delta in one critical     *)
(* section per frame, which no accumulation of the event thread enters,    *)
(* and no movement is lost or counted twice: what the frames have consumed *)
(* plus what the accumulator holds is what the event thread has added (at  *)
(* the point between the read and the reset, the accumulator's value is    *)
(* consumed already).                                                      *)
(***************************************************************************)
\* The sum of the deltas the frames have read, in units of
\* delta_time * mouse_speed.
Consumed == <<0 - h_angle, 0 - v_angle>>

C9_MouseDrainLossless ==
    /\ pcRender # "mouse_reset" =>
          mouse_accumulate(Consumed, mouse_delta) = mouse_added
    /\ pcRender = "mouse_reset" => Consumed = mouse_added
    /\ pcRender \in {"mouse_read", "mouse_reset"} =>
          /\ mouseLock = "render"
          /\ pcEvent # "mouse_add"
    /\ pcEvent = "mouse_add" => mouseLock = "event"

\* A frame has consumed a movement, the accumulator holds a later one, and
\* the event thread waits with a third while the render thread is between
\* the read and the reset.
C9_Witness ==
    /\ pcRender = "mouse_reset"
    /\ pcEvent = "mouse_lock"
    /\ Consumed # <<0, 0>>
    /\ Consumed # mouse_delta
    /\ mouse_delta # <<0, 0>>

(***************************************************************************)
(* FairSpec: Spec with the scheduling of the event thread and of the       *)
(* watchdog.  A handler that can take a step takes one, and so does the    *)
(* watchdog; the watchdog gets the write lock of the flag when the lock is *)
(* released again and again.  Nothing makes the window send an event, and  *)
(* nothing makes the render thread panic or go on.                         *)
(***************************************************************************)
FairSpec ==
    /\ Spec
    /\ WF_vars(EventHandler)
    /\ WF_vars(Watchdog)
    /\ SF_vars(W_write_lock)

Panicked == pcRender = "panicked"

Exited == pcEvent = "exited"

\* The health flag is false only after a panic of the render thread, never
\* returns to true, and the handler that reads it false sets
\* ControlFlow::Exit, which stays until the handler returns.
HealthFlagSafety ==
    /\ [](~render_thread_healthy => Panicked)
    /\ [][~render_thread_healthy => ~render_thread_healthy']_vars
    /\ [][(pcEvent = "health_read" /\ pcEvent' # "health_read"
              /\ ~render_thread_healthy) => control_flow' = "Exit"]_vars
    /\ [][control_flow = "Exit" => control_flow' = "Exit"]_vars
    /\ [](pcEvent = "wait" => control_flow = "Wait")

ComposedInOrder(n) ==
    MatMul(MatMul(MatMul(MatMul(MatMul(MatMul(
        Translation(position[n]),
        Translation(reference_point[n])),
        RotationY(rotation[n][2])),
        RotationZ(rotation[n][3])),
        RotationX(rotation[n][1])),
        Translation(Neg(reference_point[n]))),
        Scaling(scale[n]))

\* The same factors with the rotations about Z and about X exchanged, and
\* with the scaling first.
ComposedXBeforeZ(n) ==
    MatMul(MatMul(MatMul(MatMul(MatMul(MatMul(
        Translation(position[n]),
        Translation(reference_point[n])),
        RotationY(rotation[n][2])),
        RotationX(rotation[n][1])),
        RotationZ(rotation[n][3])),
        Translation(Neg(reference_point[n]))),
        Scaling(scale[n]))

ComposedScaleFirst(n) ==
    MatMul(Scaling(scale[n]),
        MatMul(MatMul(MatMul(MatMul(MatMul(
        Translation(position[n]),
        Translation(reference_point[n])),
        RotationY(rotation[n][2])),
        RotationZ(rotation[n][3])),
        RotationX(rotation[n][1])),
        Translation(Neg(reference_point[n]))))

C14_TransformOrder ==
    /\ \A n \in Nodes :
          /\ SceneNode_transform(n) = ComposedInOrder(n)
          /\ main_transform(n) = ComposedInOrder(n)
    /\ (~stale /\ updatedFrom = Root) =>
          current_transformation_matrix[Root] = ComposedInOrder(Root)

\* A pass has left in the root the product of a pose in which no other
\* order of the rotations and no other place of the scaling gives the same
\* matrix.
C14_Witness ==
    /\ ~stale
    /\ updatedFrom = Root
    /\ rotation[Root] = PoseC.rotation
    /\ current_transformation_matrix[Root] = ComposedInOrder(Root)
    /\ ComposedInOrder(Root) # ComposedXBeforeZ(Root)
    /\ ComposedInOrder(Root) # ComposedScaleFirst(Root)
    /\ ComposedInOrder(Root) # SceneNode_transform_zyx(Root)

Locks == {"keys", "mouse", "health"}

Holder(l) ==
    CASE l = "keys" -> keysLock
      [] l = "mouse" -> mouseLock
      [] l = "health" -> healthLock

HeldBy(thread) == {l \in Locks : Holder(l) = thread}

C18_NoNestedLocks ==
    /\ \A thread \in {"render", "event", "watchdog"} :
          Cardinality(HeldBy(thread)) <= 1
    /\ \A l \in Locks : Holder(l) \in {"free", "render", "event", "watchdog"}
    /\ keysLock = "render" <=> pcRender = "keys_iter"
    /\ mouseLock = "render" <=> pcRender \in {"mouse_read", "mouse_reset"}
    /\ healthLock # "render"
    /\ keysLock = "event" <=> pcEvent \in {"keys_apply", "keys_unlock"}
    /\ mouseLock = "event" <=> pcEvent = "mouse_add"
    /\ healthLock = "event" <=> pcEvent = "health_read"
    /\ healthLock = "watchdog" <=> pcWatchdog = "set"
    /\ keysLock # "watchdog" /\ mouseLock # "watchdog"
    /\ (Running /\ HeldBy("render") # {}) => ENABLED Render
    /\ (Running /\ HeldBy("event") # {}) => ENABLED EventHandler
    /\ (Running /\ HeldBy("watchdog") # {}) => ENABLED Watchdog

\* The render thread is inside the block of the mouse lock while the event
\* thread is inside the block of the key lock.
C18_Witness ==
    /\ mouseLock = "render"
    /\ keysLock = "event"
    /\ pcRender = "mouse_reset"
    /\ pcEvent = "keys_apply"

(***************************************************************************)
(* SpecLockFailure: the threads with locks whose acquisition fails.        *)
(* Mutex::lock and RwLock::read/write return Err when a thread panicked    *)
(* inside the block of the lock and poisoned it; the guard inside the Err  *)
(* is dropped at once, and the lock stays poisoned.  No block of a lock in *)
(* main can panic, so Spec has no such state: here the locks are poisoned  *)
(* from the start, in every combination, and every `if let Ok(..)` takes   *)
(* the branch it takes on Err.                                             *)
(***************************************************************************)
\* A mutant of on_err: the result of lock() unwrapped.
on_err_unwrap(next) == "panicked"

\* if let Ok(guard) = lock.lock() { ... }: on Err the block is skipped and
\* the thread goes on with what follows it.
on_err(next) == next

InitLockFailure ==
    /\ FactoryTransform
    /\ node_type = [n \in Nodes |-> IF n = Cube THEN "Geometry" ELSE "Empty"]
    /\ vao = [n \in Nodes |-> IF n = Cube THEN MeshHandle(n).vao ELSE DefaultVao]
    /\ index_count =
          [n \in Nodes |-> IF n = Cube THEN MeshHandle(n).n ELSE NoIndexCount]
    /\ texture_id = [n \in Nodes |-> None]
    /\ children = [n \in Nodes |-> IF n = Root THEN <<Cube>> ELSE <<>>]
    /\ NoTrace
    /\ HandlesUploaded
    /\ pressed_keys = <<>>
    /\ mouse_delta = <<0, 0>>
    /\ render_thread_healthy = TRUE
    /\ keysLock \in {"free", "poisoned"}
    /\ mouseLock \in {"free", "poisoned"}
    /\ healthLock \in {"free", "poisoned"}
    /\ "poisoned" \in {keysLock, mouseLock, healthLock}
    /\ pcRender = "setup"
    /\ key_index = 1
    /\ keys_seen = <<>>
    /\ h_angle = 0
    /\ v_angle = 0
    /\ frameTrace = <<>>
    /\ pcEvent = "wait"
    /\ event = NoEvent
    /\ control_flow = "Wait"
    /\ events = 0
    /\ pcWatchdog = "join"
    /\ last_key_state = [k \in KeyCodes |-> "Released"]
    /\ mouse_added = <<0, 0>>

\* A frame starts; pressed_keys.lock() is Err and the keys are not read.
R_keys_lock_err ==
    /\ Running
    /\ pcRender = "keys_lock"
    /\ keysLock = "poisoned"
    /\ key_index' = 1
    /\ keys_seen' = <<>>
    /\ frameTrace' = <<"keys_skipped">>
    /\ writeLog' = <<>>
    /\ glLog' = <<>>
    /\ pcRender' = on_err("mouse_lock")
    /\ UNCHANGED <<sceneVars, updatedFrom, overwrote, stale, drawnWith>>
    /\ UNCHANGED <<sharedVars, h_angle, v_angle, eventVars, pcWatchdog, buildVars>>

\* mouse_delta.lock() is Err: the angles and the accumulator stay.
R_mouse_lock_err ==
    /\ Running
    /\ pcRender = "mouse_lock"
    /\ mouseLock = "poisoned"
    /\ frameTrace' = Append(frameTrace, "mouse_skipped")
    /\ pcRender' = on_err(RenderAfter("mouse"))
    /\ UNCHANGED <<sceneVars, traceVars, sharedVars, key_index, keys_seen, h_angle,
                   v_angle, eventVars, pcWatchdog, buildVars>>

\* render_thread_healthy.read() is Err: the flag is not looked at.
E_health_lock_err ==
    /\ Running
    /\ pcEvent = "health_lock"
    /\ healthLock = "poisoned"
    /\ pcEvent' = on_err(Dispatch(event))
    /\ UNCHANGED <<sceneVars, traceVars, sharedVars, renderVars, event,
                   control_flow, events, last_key_state, mouse_added, pcWatchdog,
                   buildVars>>

\* arc_pressed_keys.lock() is Err: the key event changes nothing, and the
\* handler goes on to the match on Escape.
E_keys_lock_err ==
    /\ Running
    /\ pcEvent = "keys_lock"
    /\ keysLock = "poisoned"
    /\ pcEvent' = on_err("escape")
    /\ UNCHANGED <<sceneVars, traceVars, sharedVars, renderVars, event,
                   control_flow, events, last_key_state, mouse_added, pcWatchdog,
                   buildVars>>

\* arc_mouse_delta.lock() is Err: the movement is dropped.
E_mouse_lock_err ==
    /\ Running
    /\ pcEvent = "mouse_lock"
    /\ mouseLock = "poisoned"
    /\ pcEvent' = on_err("end")
    /\ UNCHANGED <<sceneVars, traceVars, sharedVars, renderVars, event,
                   control_flow, events, last_key_state, mouse_added, pcWatchdog,
                   buildVars>>

\* render_thread_watchdog.write() is Err: the flag stays true.
W_write_lock_err ==
    /\ Running
    /\ pcWatchdog = "write_lock"
    /\ healthLock = "poisoned"
    /\ pcWatchdog' = on_err("done")
    /\ UNCHANGED <<sceneVars, traceVars, sharedVars, renderVars, eventVars,
                   buildVars>>

NextLockFailure ==
    \/ Next
    \/ R_keys_lock_err
    \/ R_mouse_lock_err
    \/ E_health_lock_err
    \/ E_keys_lock_err
    \/ E_mouse_lock_err
    \/ W_write_lock_err

SpecLockFailure == InitLockFailure /\ [][NextLockFailure]_vars

(***************************************************************************)
(* C16.  With a lock whose acquisition fails, the render thread skips the  *)
(* block of that lock only: with the key lock failing it reads no key,     *)
(* with the mouse lock failing the angles and the accumulator stay as they *)
(* are, and the frame goes on to the update, the draw traversal and the    *)
(* swap in that order; the render thread ends only where it does without a *)
(* failing lock.  The event thread drops the change of the event whose     *)
(* lock fails and goes on: the handler returns, and asks for Exit only on  *)
(* a close request, on Escape or on the health flag.                       *)
(***************************************************************************)
\* The steps of a frame, with the blocks of failing locks skipped.
FrameOrderWithFailures ==
    <<IF keysLock = "poisoned" THEN "keys_skipped" ELSE "keys",
      IF mouseLock = "poisoned" THEN "mouse_skipped" ELSE "mouse",
      "update", "draw", "swap">>

C16_LockFailureSkipsBlock ==
    /\ Len(frameTrace) <= Len(FrameOrderWithFailures)
    /\ frameTrace = SubSeq(FrameOrderWithFailures, 1, Len(frameTrace))
    /\ glLog # <<>> => writeLog = PreOrder(Root)
    /\ keysLock = "poisoned" => (pressed_keys = <<>> /\ keys_seen = <<>>)
    /\ mouseLock = "poisoned" =>
          /\ h_angle = 0 /\ v_angle = 0
          /\ mouse_delta = <<0, 0>>
          /\ mouse_added = <<0, 0>>
    /\ mouseLock # "poisoned" =>
          (pcRender \notin {"mouse_read", "mouse_reset"} =>
              mouse_accumulate(Consumed, mouse_delta) = mouse_added)
    /\ keysLock # "poisoned" =>
          (~KeyEventPending => Range(pressed_keys) = KeysDown)
    /\ pcRender = "panicked" =>
          \/ stale /\ frameTrace = <<>>
          \/ frameTrace # <<>> /\ frameTrace[Len(frameTrace)] = "draw"
    /\ pcEvent \in {"wait", "health_lock", "health_read", "close", "keys_lock",
                    "keys_apply", "keys_unlock", "escape", "mouse_lock",
                    "mouse_add", "end", "exited"}
    /\ pcWatchdog \in {"join", "write_lock", "set", "done"}
    /\ (control_flow = "Exit" /\ pcEvent # "exited") =>
          \/ event.kind = "Close"
          \/ event.kind = "Key" /\ event.key = "Escape"
          \/ ~render_thread_healthy
    /\ healthLock = "poisoned" => render_thread_healthy

\* With the key lock and the mouse lock failing, a frame has run to its
\* swap after the event thread was sent a key and a mouse movement, dropped
\* both and went back to wait.
C16_Witness ==
    /\ keysLock = "poisoned"
    /\ mouseLock = "poisoned"
    /\ frameTrace = <<"keys_skipped", "mouse_skipped", "update", "draw", "swap">>
    /\ Calls(glLog, "DrawElements", Cube) # {}
    /\ pcEvent = "wait"
    /\ KeysDown # {}
    /\ events >= 2
    /\ pressed_keys = <<>>

(***************************************************************************)
(* SpecBuild: a scene built call by call.  It starts with a fresh context  *)
(* and no node.  The nodes are numbered in the order of their making; a    *)
(* field of the nodes is a sequence with one entry a node.  `built` keeps, *)
(* for every node, the mesh its handle was uploaded from and the mesh its  *)
(* index buffer holds now, the last call, and whether a traversal ran out  *)
(* of stack.                                                               *)
(***************************************************************************)
\* mesh::Mesh, as far as the upload looks at it: the number of entries of
\* `indices` and the field index_count.
\* The number of meshes uploaded again to nodes that exist.
MaxUploads == 1

Meshes ==
    {[indices |-> 3, index_count |-> 3], [indices |-> 6, index_count |-> 6]}

Made == DOMAIN children

InitBuild ==
    /\ position = <<>>
    /\ rotation = <<>>
    /\ scale = <<>>
    /\ reference_point = <<>>
    /\ node_type = <<>>
    /\ current_transformation_matrix = <<>>
    /\ vao = <<>>
    /\ index_count = <<>>
    /\ texture_id = <<>>
    /\ children = <<>>
    /\ ibo = <<>>
    /\ gl = GLStart
    /\ built = [source |-> <<>>, current |-> <<>>, looping |-> FALSE,
                uploads |-> 0, overflow |-> FALSE, planets |-> <<>>]
    /\ NoTrace
    /\ ThreadsStart

\* A mutant of mkvao: the count of the handle in triangles.
mkvao_triangles(g, obj) ==
    LET v == g.vaos + 1
        b == g.buffers + 1
    IN  [gl |-> [vaos |-> v, buffers |-> g.buffers + 4, bound_vao |-> v,
                 element_buffer |->
                    [x \in 0..v |-> IF x = v THEN b ELSE g.element_buffer[x]],
                 buffer_len |-> g.buffer_len \o <<obj.indices, 0, 0, 0>>],
         handle |-> [vao |-> v, ibo |-> b, n |-> obj.index_count \div 3]]

\* mkvao: a vertex array is generated and bound; the index buffer is
\* generated, bound to it and filled with obj.indices; three more buffers
\* follow for the vertices, the colors and the normals, whose sizes are not
\* kept here.  The handle is the vertex array with obj.index_count (and the
\* index buffer, which mesh::VAOobj carries for update_index_buffer).
mkvao(g, obj) ==
    LET v == g.vaos + 1
        b == g.buffers + 1
    IN  [gl |-> [vaos |-> v, buffers |-> g.buffers + 4, bound_vao |-> v,
                 element_buffer |->
                    [x \in 0..v |-> IF x = v THEN b ELSE g.element_buffer[x]],
                 buffer_len |-> g.buffer_len \o <<obj.indices, 0, 0, 0>>],
         handle |-> [vao |-> v, ibo |-> b, n |-> obj.index_count]]

\* The fields new, with_type and from_vao set, given the three in which the
\* factories differ.
MakeNode(type, handle_vao, handle_ibo, count) ==
    /\ position' = Append(position, zero)
    /\ rotation' = Append(rotation, zero)
    /\ scale' = Append(scale, <<1, 1, 1>>)
    /\ reference_point' = Append(reference_point, zero)
    /\ node_type' = Append(node_type, type)
    /\ current_transformation_matrix' =
          Append(current_transformation_matrix, identity)
    /\ vao' = Append(vao, handle_vao)
    /\ ibo' = Append(ibo, handle_ibo)
    /\ index_count' = Append(index_count, count)
    /\ texture_id' = Append(texture_id, None)
    /\ children' = Append(children, <<>>)

\* The process runs: no traversal has run out of stack and no generator has
\* refused its arguments.
Alive ==
    /\ ~built.overflow
    /\ \A k \in 1..Len(built.planets) : ~built.planets[k].rejected

\* main makes the nodes and attaches them before its render loop starts.
Building == Alive /\ ~built.looping

\* The render loop runs: the first update of the scene has returned.
Looping == Alive /\ built.looping

\* A call that makes or changes a node forgets the calls of the traversals.
TracesForgotten ==
    /\ writeLog' = <<>>
    /\ glLog' = <<>>
    /\ updatedFrom' = 0
    /\ overwrote' = FALSE
    /\ stale' = TRUE
    /\ UNCHANGED drawnWith

\* SceneNode::new()
B_new ==
    /\ Building
    /\ Len(children) < MaxNodes
    /\ MakeNode("Empty", DefaultVao, 0, NoIndexCount)
    /\ built' = [built EXCEPT !.source = Append(@, None),
                              !.current = Append(@, None)]
    /\ TracesForgotten
    /\ UNCHANGED <<gl, threadVars>>

\* SceneNode::with_type(node_type)
B_with_type(type) ==
    /\ Building
    /\ Len(children) < MaxNodes
    /\ MakeNode(type, DefaultVao, 0, NoIndexCount)
    /\ built' = [built EXCEPT !.source = Append(@, None),
                              !.current = Append(@, None)]
    /\ TracesForgotten
    /\ UNCHANGED <<gl, threadVars>>

\* SceneNode::from_vao(mkvao(&obj))
B_from_vao(obj) ==
    /\ Building
    /\ Len(children) < MaxNodes
    /\ \E up \in {mkvao(gl, obj)} :
          /\ gl' = up.gl
          /\ MakeNode("Geometry", up.handle.vao, up.handle.ibo, up.handle.n)
          /\ built' = [built EXCEPT
                          !.source = Append(@, Some(obj)),
                          !.current = Append(@, Some(obj))]
    /\ TracesForgotten
    /\ UNCHANGED threadVars

\* A mutant of SceneNode_add_child: the child put in front of the list.
SceneNode_add_child_front(ch, parent, child) ==
    [ch EXCEPT ![parent] = <<child>> \o @]

\* self.children.push(child as *const SceneNode as *mut SceneNode)
SceneNode_add_child(ch, parent, child) ==
    [ch EXCEPT ![parent] = Append(@, child)]

RECURSIVE ChildEntries(_, _)
\* The number of entries of the child lists of the nodes from n on.
ChildEntries(ch, n) ==
    IF n > Len(ch) THEN 0 ELSE Len(ch[n]) + ChildEntries(ch, n + 1)

RECURSIVE Closure(_, _, _)
\* The nodes of S and the nodes at most k child links below them.
Closure(ch, S, k) ==
    IF k = 0
    THEN S
    ELSE Closure(ch, S \cup {c \in DOMAIN ch : \E q \in S : c \in Range(ch[q])},
                 k - 1)

\* The nodes a traversal from r comes to, r among them.
Under(ch, r) == Closure(ch, {r}, Len(ch))

\* The nodes below n.
Below(ch, n) == Closure(ch, Range(ch[n]), Len(ch))

\* No node a traversal from r comes to is below itself.
Acyclic(ch, r) == \A n \in Under(ch, r) : n \notin Below(ch, n)

\* How often node c is entered in the child lists of the nodes under r.
EntriesOf(ch, r, c) ==
    Cardinality({pi \in Under(ch, r) \X (1..Len(ch)) :
                    pi[2] <= Len(ch[pi[1]]) /\ ch[pi[1]][pi[2]] = c})

\* The nodes under r are a tree: none is below itself and each but r is in
\* one child list, once.
IsTreeUnder(ch, r) ==
    /\ Acyclic(ch, r)
    /\ \A c \in Under(ch, r) : EntriesOf(ch, r, c) = (IF c = r THEN 0 ELSE 1)

\* parent.add_child(&child), for any two nodes: nothing is tested.  The
\* lists hold fewer entries than there can be nodes.
B_add_child(parent, child) ==
    /\ Building
    /\ parent \in Made
    /\ child \in Made
    /\ ChildEntries(children, 1) < MaxNodes - 1
    /\ children' = SceneNode_add_child(children, parent, child)
    /\ TracesForgotten
    /\ UNCHANGED <<position, rotation, scale, reference_point, node_type,
                   current_transformation_matrix, vao, index_count, texture_id,
                   buildVars, threadVars>>

\* gl::BindBuffer(gl::ELEMENT_ARRAY_BUFFER, b): the vertex array that is
\* bound refers to b from now on.
BindElementBuffer(g, b) ==
    [g EXCEPT !.element_buffer[g.bound_vao] = b]

\* gl::BufferData(gl::ELEMENT_ARRAY_BUFFER, ..): the buffer the bound vertex
\* array refers to holds k indices; without such a buffer the call is an
\* error and changes nothing.
ElementBufferData(g, k) ==
    IF g.element_buffer[g.bound_vao] = 0
    THEN g
    ELSE [g EXCEPT !.buffer_len[g.element_buffer[g.bound_vao]] = k]

\* self.update_index_buffer(mesh)
SceneNode_update_index_buffer(g, n, mesh) ==
    ElementBufferData(BindElementBuffer(g, ibo[n]), mesh.indices)

\* self.update_buffers(mesh): the vertex, normal and texture buffers bind
\* the node's vertex array and fill buffers whose sizes are not kept here;
\* the index buffer comes last.
SceneNode_update_buffers(g, n, mesh) ==
    SceneNode_update_index_buffer(BindVertexArray(g, vao[n]), n, mesh)

\* node.update_buffers(&mesh)
B_update_buffers(n, mesh) ==
    /\ Looping
    /\ built.uploads < MaxUploads
    /\ n \in Made
    /\ gl' = SceneNode_update_buffers(gl, n, mesh)
    /\ built' = [built EXCEPT
                    !.uploads = @ + 1,
                    !.current[n] = IF ibo[n] = 0 THEN @ ELSE Some(mesh)]
    /\ glLog' = <<>>
    /\ UNCHANGED <<sceneVars, writeLog, updatedFrom, overwrote, stale,
                   drawnWith, ibo, threadVars>>

\* unsafe { node.update_index_buffer(&mesh) }
B_update_index_buffer(n, mesh) ==
    /\ Looping
    /\ built.uploads < MaxUploads
    /\ n \in Made
    /\ gl' = SceneNode_update_index_buffer(gl, n, mesh)
    /\ built' = [built EXCEPT
                    !.uploads = @ + 1,
                    !.current[n] = IF ibo[n] = 0 THEN @ ELSE Some(mesh)]
    /\ glLog' = <<>>
    /\ UNCHANGED <<sceneVars, writeLog, updatedFrom, overwrote, stale,
                   drawnWith, ibo, threadVars>>

\* root.update_node_transformations(&glm::identity()): with a node below
\* itself the recursion does not return and the stack runs out.
B_update ==
    /\ Building
    /\ Root \in Made
    /\ IF Acyclic(children, Root)
       THEN /\ \E done \in {SceneNode_update_node_transformations(
                               Root, identity, PassStart)} :
                  /\ current_transformation_matrix' = done.ctm
                  /\ writeLog' = done.log
                  /\ overwrote' = Overwrites(done)
            /\ updatedFrom' = Root
            /\ stale' = FALSE
            /\ built' = [built EXCEPT !.looping = TRUE]
       ELSE /\ built' = [built EXCEPT !.overflow = TRUE]
            /\ UNCHANGED <<current_transformation_matrix, writeLog, overwrote,
                           updatedFrom, stale>>
    /\ glLog' = <<>>
    /\ UNCHANGED <<position, rotation, scale, reference_point, node_type, vao,
                   index_count, texture_id, children, drawnWith, ibo, gl,
                   threadVars>>

\* root.draw_scene(&view_projection_matrix, &sh), in the render loop after
\* the update, which has returned.
B_draw(view_projection_matrix) ==
    /\ Looping
    /\ glLog = <<>>
    /\ glLog' = SceneNode_draw_scene(Root, view_projection_matrix, <<>>)
    /\ gl' = BoundAfter(gl, glLog', 1)
    /\ drawnWith' = view_projection_matrix
    /\ UNCHANGED <<sceneVars, writeLog, updatedFrom, overwrote, stale, ibo,
                   built, threadVars>>

\* The node types with_type is called with here.
BuildTypes == {"LightSource", "Geometry"}

\* perspective_mat * cam of the traversals of this scene.
BuildView == translate(identity, <<0, 0, 0 - 3>>)

NextBuild ==
    \/ B_new
    \/ \E type \in BuildTypes : B_with_type(type)
    \/ \E obj \in Meshes : B_from_vao(obj)
    \/ \E parent \in Made, child \in Made : B_add_child(parent, child)
    \/ \E n \in Made, obj \in Meshes : B_update_buffers(n, obj)
    \/ \E n \in Made, obj \in Meshes : B_update_index_buffer(n, obj)
    \/ B_update
    \/ B_draw(BuildView)

SpecBuild == InitBuild /\ [][NextBuild]_vars

\* The nodes made by from_vao.
Uploaded == {n \in Made : built.source[n] # None}

\* C11: a node made by from_vao from the handle mkvao returned for a mesh
\* has that mesh's index_count as its index_count and the vertex array and
\* index buffer generated for it, in every state: when it is made and after
\* any update traversal, draw traversal or later upload.
C11_HandleCountIsIndexCount ==
    \A n \in Uploaded :
        /\ index_count[n] = built.source[n][1].index_count
        /\ vao[n] \in 1..gl.vaos
        /\ ibo[n] \in 1..gl.buffers
        /\ \A m \in Uploaded : m # n => vao[m] # vao[n] /\ ibo[m] # ibo[n]

\* Both meshes were uploaded, their nodes hang under the root, and the
\* update traversal and the draw traversal have run over them.
C11_Witness ==
    /\ Looping
    /\ \E a, b \in Uploaded :
          /\ index_count[a] = 3
          /\ index_count[b] = 6
          /\ {a, b} \subseteq Range(writeLog)
          /\ Calls(glLog, "DrawElements", a) # {}
          /\ Calls(glLog, "DrawElements", b) # {}

\* The scene under the root is a finite tree.
TreeBuilt == Root \in Made /\ IsTreeUnder(children, Root)

\* Over a tree both traversals return and come to each node under the root
\* once, and to no other node.
TraversalsVisitOnce ==
    TreeBuilt =>
        /\ ~built.overflow
        /\ Looping => /\ NoDup(writeLog)
                      /\ Range(writeLog) = Under(children, Root)
        /\ glLog # <<>> =>
              \A n \in Made :
                  Cardinality(Calls(glLog, "draw_scene", n))
                      = (IF n \in Under(children, Root) THEN 1 ELSE 0)

\* add_child tests nothing: while there is room, any node can be attached
\* to any node, to itself and to a second parent as well.
AddChildUnchecked ==
    (Building /\ ChildEntries(children, 1) < MaxNodes - 1) =>
        \A parent \in Made, child \in Made : ENABLED B_add_child(parent, child)

\* A step that changes a child list of a node that was there puts one node
\* behind what the list held, and leaves the other lists as they were.
AddChildAppends ==
    \A parent \in Made :
        children'[parent] # children[parent] =>
            /\ \E child \in Made :
                  children'[parent] = Append(children[parent], child)
            /\ \A other \in Made \ {parent} :
                  children'[other] = children[other]

\* C17: with the scene a finite tree, the update traversal and the draw
\* traversal from the root return and visit each node under the root
\* exactly once; add_child appends the child behind the children the parent
\* has, in their order, and refuses no child.
C17_TreeTraversalsVisitOnce ==
    /\ [](TraversalsVisitOnce /\ AddChildUnchecked)
    /\ [][AddChildAppends]_vars

\* The root got node 3 and then node 2 as children; the update came to the
\* three nodes in that order and the draw traversal entered each once.
C17_Witness ==
    /\ Looping
    /\ TreeBuilt
    /\ children[Root] = <<3, 2>>
    /\ writeLog = <<Root, 3, 2>>
    /\ \A n \in 1..3 : Cardinality(Calls(glLog, "draw_scene", n)) = 1

\* The number of indices in the index buffer the vertex array of node n
\* refers to.
IndicesHeld(n) == gl.buffer_len[gl.element_buffer[vao[n]]]

\* C19, as claimed: a node made by from_vao keeps its vertex array, and
\* each of its draw calls asks for as many indices as the mesh last
\* uploaded to it has, which is no more than the index buffer of its vertex
\* array holds.
C19_DrawUsesUploadedCount ==
    \A n \in Uploaded :
        /\ vao[n] \in 1..gl.vaos
        /\ \A i \in Calls(glLog, "DrawElements", n) :
              /\ glLog[i].val = built.current[n][1].index_count
              /\ glLog[i].val <= IndicesHeld(n)

(***************************************************************************)
(* SpecCubesphere: planets made by make_cubesphere in a fresh context,     *)
(* then updated and drawn from the first of them.  Angles are in quarter   *)
(* turns and colors in tenths.                                             *)
(***************************************************************************)
\* The number of calls of make_cubesphere.
MaxPlanets == 1

\* let subdivisions = 256;
make_cubesphere_subdivisions == 256

\* let color = glm::vec4(0.2, 0.8, 0.4, 1.0);
make_cubesphere_color == <<2, 8, 4, 10>>

\* The rotation and the normal given to cs_plane for the top, bottom,
\* front, back, left and right face.
make_cubesphere_faces ==
    << [rotation |-> <<0, 0, 0>>, normal |-> <<0, 1, 0>>],
       [rotation |-> <<2, 0, 0>>, normal |-> <<0, 0 - 1, 0>>],
       [rotation |-> <<1, 0, 0>>, normal |-> <<0, 0, 1>>],
       [rotation |-> <<0 - 1, 0, 0>>, normal |-> <<0, 0, 0 - 1>>],
       [rotation |-> <<0, 0, 0 - 1>>, normal |-> <<1, 0, 0>>],
       [rotation |-> <<0, 0, 1>>, normal |-> <<0 - 1, 0, 0>>] >>

\* mesh::Mesh::cs_plane, as the generator of one face is specified: a count
\* of 0 is refused; otherwise the face has 2 N N triangles, three indices
\* each.
Mesh_cs_plane(face_scale, face_rotation, normal, subdivisions, color) ==
    IF subdivisions = 0
    THEN None
    ELSE Some([indices |-> 6 * subdivisions * subdivisions,
               index_count |-> 6 * subdivisions * subdivisions,
               scale |-> face_scale,
               rotation |-> face_rotation,
               normal |-> normal,
               subdivisions |-> subdivisions,
               color |-> color])

\* mesh::Mesh::mkvao, the upload of a mesh as it is specified: what mkvao
\* of main.rs does.
Mesh_mkvao(g, obj) == mkvao(g, obj)

RECURSIVE UploadFaces(_, _, _, _)
\* planeN_mesh.mkvao() for the faces from the i-th on, in their order.
UploadFaces(g, meshes, i, handles) ==
    IF i > Len(meshes)
    THEN [gl |-> g, handles |-> handles]
    ELSE LET up == Mesh_mkvao(g, meshes[i][1])
         IN  UploadFaces(up.gl, meshes, i + 1, Append(handles, up.handle))

\* A mutant of make_cubesphere_children: the top face attached twice, the
\* bottom face not at all.
make_cubesphere_children_twice(first) ==
    <<first + 1, first + 1, first + 3, first + 4, first + 5, first + 6>>

\* The nodes given to cubesphere.add_child, in the order of the calls:
\* plane0_node to plane5_node, made after the parent.
make_cubesphere_children(first) ==
    <<first + 1, first + 2, first + 3, first + 4, first + 5, first + 6>>

RECURSIVE AddChildren(_, _, _, _)
\* parent.add_child(&kids[i]) for the kids from the i-th on.
AddChildren(ch, parent, kids, i) ==
    IF i > Len(kids)
    THEN ch
    ELSE AddChildren(SceneNode_add_child(ch, parent, kids[i]), parent, kids,
                     i + 1)

\* The same value for each of the six faces.
Six(x) == <<x, x, x, x, x, x>>

\* SceneNode::make_cubesphere(scale, rotation, position, subdivisions,
\* color), called in context g when `first` - 1 nodes exist: what it adds
\* to each field of the nodes, the child lists and the context after it.
\* The subdivisions and the color of the caller are shadowed by the two let
\* bindings; the rotation and the position are not used.
make_cubesphere(g, first, to_scale, to_rotation, to_position, subdivisions_given, color_given) ==
    LET subdivisions == make_cubesphere_subdivisions
        color == make_cubesphere_color
        meshes == [i \in 1..6 |->
                      Mesh_cs_plane(<<1, 1, 1>>,
                                    make_cubesphere_faces[i].rotation,
                                    make_cubesphere_faces[i].normal,
                                    subdivisions, Some(color))]
    IN  IF \E i \in 1..6 : meshes[i] = None
        THEN [rejected |-> TRUE]
        ELSE LET up == UploadFaces(g, meshes, 1, <<>>)
             IN  [rejected |-> FALSE,
                  gl |-> up.gl,
                  position |-> <<zero>> \o Six(zero),
                  rotation |-> <<zero>> \o Six(zero),
                  scale |-> <<to_scale>> \o Six(<<1, 1, 1>>),
                  reference_point |-> <<zero>> \o Six(zero),
                  node_type |-> <<"Empty">> \o Six("Planet"),
                  matrix |-> <<identity>> \o Six(identity),
                  vao |-> <<DefaultVao>> \o [i \in 1..6 |-> up.handles[i].vao],
                  ibo |-> <<0>> \o [i \in 1..6 |-> up.handles[i].ibo],
                  index_count |->
                      <<NoIndexCount>> \o [i \in 1..6 |-> up.handles[i].n],
                  texture_id |-> <<None>> \o Six(None),
                  children |->
                      AddChildren(children \o <<<<>>>> \o Six(<<>>), first,
                                  make_cubesphere_children(first), 1),
                  source |-> <<None>> \o meshes]

\* What a call of make_cubesphere was given and what came of it.
PlanetCall(to_scale, to_rotation, to_position, subdivisions_given, color_given, made) ==
    [parent |-> Len(children) + 1,
     scale |-> to_scale,
     rotation |-> to_rotation,
     position |-> to_position,
     subdivisions |-> subdivisions_given,
     color |-> color_given,
     rejected |-> made.rejected,
     nodes |-> IF made.rejected THEN 0 ELSE Len(made.children) - Len(children),
     handles |-> IF made.rejected THEN 0 ELSE made.gl.vaos - gl.vaos]

\* let planet = SceneNode::make_cubesphere(scale, rotation, position,
\* subdivisions, color);
C_make_cubesphere(to_scale, to_rotation, to_position, subdivisions_given, color_given) ==
    /\ Building
    /\ Len(built.planets) < MaxPlanets
    /\ \E made \in {make_cubesphere(gl, Len(children) + 1, to_scale,
                                    to_rotation, to_position,
                                    subdivisions_given, color_given)} :
          /\ built' = [built EXCEPT
                          !.planets = Append(@, PlanetCall(to_scale,
                                          to_rotation, to_position,
                                          subdivisions_given, color_given,
                                          made)),
                          !.source = IF made.rejected THEN @
                                     ELSE @ \o made.source,
                          !.current = IF made.rejected THEN @
                                      ELSE @ \o made.source]
          /\ IF made.rejected
             THEN UNCHANGED <<sceneVars, ibo, gl>>
             ELSE /\ position' = position \o made.position
                  /\ rotation' = rotation \o made.rotation
                  /\ scale' = scale \o made.scale
                  /\ reference_point' = reference_point \o made.reference_point
                  /\ node_type' = node_type \o made.node_type
                  /\ current_transformation_matrix' =
                        current_transformation_matrix \o made.matrix
                  /\ vao' = vao \o made.vao
                  /\ ibo' = ibo \o made.ibo
                  /\ index_count' = index_count \o made.index_count
                  /\ texture_id' = texture_id \o made.texture_id
                  /\ children' = made.children
                  /\ gl' = made.gl
    /\ TracesForgotten
    /\ UNCHANGED threadVars

\* The arguments the planets are asked for with.
PlanetScales == {<<1, 1, 1>>, <<2, 2, 2>>}

PlanetRotations == {zero, <<0, 1, 0>>}

PlanetPositions == {zero, <<0, 0, 1>>}

PlanetSubdivisions == {0, 1, 2, make_cubesphere_subdivisions}

PlanetColors == {None, Some(<<10, 0, 0, 10>>), Some(make_cubesphere_color)}

InitCubesphere == InitBuild

NextCubesphere ==
    \/ \E to_scale \in PlanetScales, to_rotation \in PlanetRotations,
          to_position \in PlanetPositions,
          subdivisions_given \in PlanetSubdivisions,
          color_given \in PlanetColors :
          C_make_cubesphere(to_scale, to_rotation, to_position,
                            subdivisions_given, color_given)
    \/ B_update
    \/ B_draw(BuildView)

SpecCubesphere == InitCubesphere /\ [][NextCubesphere]_vars

\* The calls of make_cubesphere that returned a node.
PlanetsMade == {k \in 1..Len(built.planets) : ~built.planets[k].rejected}

\* The normal the face of node n was generated with.
FaceNormal(n) == built.source[n][1].normal

\* The six directions along the axes.
AxisDirections ==
    {<<0, 1, 0>>, <<0, 0 - 1, 0>>, <<0, 0, 1>>, <<0, 0, 0 - 1>>,
     <<1, 0, 0>>, <<0 - 1, 0, 0>>}

\* C12: the node make_cubesphere returns has exactly six children, all
\* different nodes; each is of type Planet, has no children, was made from
\* a mesh of its own with its own vertex array and index buffer, and is in
\* the child list of no other node; the normals of the six faces are the
\* six directions along the axes, one each.
C12_SixDistinctFaces ==
    \A k \in PlanetsMade :
        LET parent == built.planets[k].parent
            kids == children[parent]
        IN  /\ node_type[parent] = "Empty"
            /\ Len(kids) = 6
            /\ NoDup(kids)
            /\ \A i \in 1..Len(kids) :
                  /\ kids[i] # parent
                  /\ node_type[kids[i]] = "Planet"
                  /\ children[kids[i]] = <<>>
                  /\ kids[i] \in Uploaded
                  /\ vao[kids[i]] \in 1..gl.vaos
                  /\ gl.element_buffer[vao[kids[i]]] = ibo[kids[i]]
                  /\ index_count[kids[i]] = built.source[kids[i]][1].index_count
                  /\ \A q \in Made \ {parent} : kids[i] \notin Range(children[q])
            /\ \A i, j \in 1..Len(kids) :
                  i # j => /\ vao[kids[i]] # vao[kids[j]]
                           /\ ibo[kids[i]] # ibo[kids[j]]
                           /\ FaceNormal(kids[i]) # FaceNormal(kids[j])
            /\ {FaceNormal(kids[i]) : i \in 1..Len(kids)} = AxisDirections

\* A planet was made, updated and drawn from its parent: the update came
\* to the seven nodes and each of the six faces was drawn once, each with
\* another vertex array.
C12_Witness ==
    /\ Looping
    /\ PlanetsMade # {}
    /\ built.planets[1].parent = Root
    /\ Len(writeLog) = 7
    /\ \A i \in 1..6 :
          /\ Cardinality(Calls(glLog, "DrawElements", Root + i)) = 1
          /\ Cardinality(Calls(glLog, "BindVertexArray", Root + i)) = 1
    /\ Cardinality({glLog[i].val : i \in {j \in 1..Len(glLog) :
                        glLog[j].op = "BindVertexArray"}}) = 6

\* C13, as claimed: a call of make_cubesphere with a subdivision count of 0
\* is refused, and no node and no vertex array comes of it.
C13_ZeroSubdivisionsRejected ==
    \A k \in 1..Len(built.planets) :
        built.planets[k].subdivisions = 0 =>
            /\ built.planets[k].rejected
            /\ built.planets[k].nodes = 0
            /\ built.planets[k].handles = 0

\* C20, as claimed: the faces of a planet are generated with the
\* subdivision count and the color the caller gave, and the parent has the
\* scale, the rotation and the position the caller gave.
C20_CallerArgumentsUsed ==
    \A k \in PlanetsMade :
        LET call == built.planets[k]
            kids == children[call.parent]
        IN  call.subdivisions # 0 =>
               /\ scale[call.parent] = call.scale
               /\ rotation[call.parent] = call.rotation
               /\ position[call.parent] = call.position
               /\ \A i \in 1..Len(kids) :
                     /\ built.source[kids[i]][1].subdivisions = call.subdivisions
                     /\ built.source[kids[i]][1].color = call.color
====
